---- MODULE Spec2Model ----
(***************************************************************************)
(* LOD streaming and residency of a model asset                            *)
(* (Source/Engine/Content/Assets/Model.cpp).                               *)
(*                                                                         *)
(* One Model object, the tasks that stream it, and one caller thread that  *)
(* invokes the model's operations one at a time.  Tasks run on worker      *)
(* threads and interleave with the caller at the granularity of the        *)
(* statements that touch the model: StreamModelLODTask::Run takes no lock, *)
(* so a step of a handler that holds Locker does not exclude a step of a   *)
(* task.  A failed ASSERT is fatal: it sets `fatal` and the program stops. *)
(***************************************************************************)
EXTENDS Integers, Sequences, FiniteSets

VARIABLES
    alive,          \* the Model object exists (weak references resolve)
    isVirtual,      \* IsVirtual(): created by InitAsVirtual, no Storage
    initialized,    \* IsInitialized()
    streaming,      \* the model is registered with the streaming driver
    LODs,           \* LODs[i + 1] = TRUE iff LOD i has its GPU buffers
    loadedLODs,     \* _loadedLODs
    streamingTask,  \* _streamingTask (a task id, NULL when nullptr)
    sdfTexture,     \* SDF.Texture != nullptr
    tasks,          \* the task objects, by id
    caller,         \* the caller thread: its position and locals
    fired,          \* ResidencyChanged notifications fired by the last step
    fatal,          \* "" or the name of the assertion that stopped the program
    MaterialSlots,  \* MaterialSlots.Count()
    Meshes,         \* Meshes[i + 1] = LODs[i].Meshes: slot index and UV flag
    chunks,         \* the asset file: its header chunk 0 and SDF chunk 15
    loadResult,     \* "" or what Model::load returned
    EnableModelSDF, \* the static byte: 0 undecided, 1 enabled, 2 disabled
    device,         \* GPUDevice::Instance: "none" or its feature level
    SDF,            \* the SDF: its texture (NULL when nullptr) and metadata
    call,           \* the last call of the API: its arguments and return value
    meshData,       \* a mesh and its index buffer as downloaded from the GPU
    meshesStream,   \* the indices Save wrote for that mesh
    downloads,      \* the download task of each buffer of the mesh Save reads
    lodChunks,      \* the LOD chunks of the asset: as in the file, or rewritten
    draw            \* a model instance being drawn: its draw state and last draw

\* The structure of the model (material slots, meshes) and the file it is
\* read from and written to.  The streaming specifications abstract the
\* header to the outcome of load and leave these as they are; the header
\* specification HeaderSpec tracks them.
structure == <<MaterialSlots, Meshes, chunks, loadResult>>

vars == <<alive, isVirtual, initialized, streaming, LODs, loadedLODs, streamingTask,
          sdfTexture, tasks, caller, fired, fatal, MaterialSlots, Meshes, chunks,
          loadResult, EnableModelSDF, device, SDF, call, meshData, meshesStream,
          downloads, lodChunks, draw>>

\* The process-wide SDF decision, the record of the last API call and the
\* mesh download of Save: the streaming specifications leave them alone.
outside ==
    <<EnableModelSDF, device, call, meshData, meshesStream, downloads, lodChunks,
      draw>>

\* Largest LOD count a header or SetupLODs supplies.
MaxLODs == 3
\* Number of task objects that exist at once.
MaxTasks == 2
\* Largest SDF mip count a header supplies.
MaxMips == 1

NULL == 0
TaskIds == 1..MaxTasks

\* Chunk 0 is missing.
MissingHeader == [present |-> FALSE, slots |-> 0, lods |-> 0, entries |-> <<>>]

\* Chunk 15 is missing or not loaded.
NoSDF == [present |-> FALSE, version |-> 0, mips |-> 0]

\* No file is open: the object was not created from storage.
NoFile == [open |-> FALSE, header |-> MissingHeader, sdf |-> NoSDF]

\* LODs.Count()
LODsCount == Len(LODs)

\* Model::HighestResidentLODIndex
HighestResidentLODIndex == LODsCount - loadedLODs

\* Model::GetCurrentResidency
GetCurrentResidency == loadedLODs

\* Model::GetMaxResidency
GetMaxResidency == LODsCount

\* Model::CanBeUpdated
CanBeUpdated == initialized /\ streamingTask = NULL

\* The set of LOD indices that have GPU buffers.
LoadedSet == {i \in 0..(LODsCount - 1) : LODs[i + 1]}

\* n LODs, none with GPU buffers.
FreshLODs(n) == [i \in 1..n |-> FALSE]

(***************************************************************************)
(* Tasks.                                                                  *)
(***************************************************************************)
NoTask ==
    [kind |-> "none", state |-> "None", cancel |-> FALSE, ended |-> FALSE,
     asset |-> FALSE, lodIndex |-> -1, next |-> NULL, pc |-> "none",
     locks |-> 0, releases |-> 0, pre |-> -1, target |-> -1]

\* StreamModelLODTask::StreamModelLODTask
\* (pre and target record the residency at the request and the one requested)
NewLODTask(lodIndex, pre, target, started) ==
    [NoTask EXCEPT !.kind = "lod",
                   !.state = IF started THEN "Queued" ELSE "Created",
                   !.asset = TRUE, !.lodIndex = lodIndex, !.locks = 1,
                   !.pre = pre, !.target = target]

\* StreamModelSDFTask::StreamModelSDFTask, then task->Start()
NewSDFTask ==
    [NoTask EXCEPT !.kind = "sdf", !.state = "Queued", !.asset = TRUE,
                   !.locks = 1]

\* The chunk-read task RequestLODDataAsync returns, started by the driver,
\* with the streaming task as its continuation (ContinueWith).
NewChunkTask(next) ==
    [NoTask EXCEPT !.kind = "chunk", !.state = "Queued", !.next = next]

\* The part of the program state that task operations read and write.
World == [tasks |-> tasks, st |-> streamingTask, fatal |-> fatal, wait |-> NULL]

\* FlaxStorage::LockData::Release
Release(rec) == [rec EXCEPT !.locks = @ - 1, !.releases = @ + 1]

\* Mutant: the task releases its lock and stays linked to the model.
LODTaskOnEndKeepLink(w, t) ==
    [w EXCEPT !.tasks[t] = Release([w.tasks[t] EXCEPT !.asset = FALSE])]

\* StreamModelLODTask::OnEnd
LODTaskOnEnd(w, t) ==
    LET rec == w.tasks[t] IN
    IF rec.asset /\ w.st # t
    THEN [w EXCEPT !.fatal = "OnEnd"]
    ELSE IF rec.asset
         THEN [w EXCEPT !.st = NULL,
                        !.tasks[t] = Release([rec EXCEPT !.asset = FALSE])]
         ELSE [w EXCEPT !.tasks[t] = Release(rec)]

\* Mutant: the lock is released only while the model is alive.
SDFTaskOnEndAlive(w, t) ==
    IF w.tasks[t].asset THEN [w EXCEPT !.tasks[t] = Release(w.tasks[t])] ELSE w

\* StreamModelSDFTask::OnEnd
SDFTaskOnEnd(w, t) == [w EXCEPT !.tasks[t] = Release(w.tasks[t])]

\* A task object after its end hook.  What is kept of a streaming task is
\* its end state and its lock; the object of a chunk-read task is gone.
Ended(rec, result) ==
    IF rec.kind = "chunk" THEN NoTask
    ELSE [NoTask EXCEPT !.kind = rec.kind, !.state = result, !.ended = TRUE,
                        !.locks = rec.locks, !.releases = rec.releases]

\* The task ends with `result`: its OnEnd override runs, then the task is over.
EndTask(w, t, result) ==
    LET k  == w.tasks[t].kind
        w1 == IF k = "lod" THEN LODTaskOnEnd(w, t)
              ELSE IF k = "sdf" THEN SDFTaskOnEnd(w, t)
              ELSE w
    IN IF w1.fatal # "" THEN w1
       ELSE [w1 EXCEPT !.tasks[t] = Ended(w1.tasks[t], result)]

\* Task::Start of a continuation: a cancelled or ended task is not started.
Start(w, t) ==
    IF w.tasks[t].state = "Created" /\ ~w.tasks[t].cancel /\ ~w.tasks[t].ended
    THEN [w EXCEPT !.tasks[t].state = "Queued", !.tasks[t].pc = "none"]
    ELSE w

\* Task::Cancel: sets the flag, reaches the continuation, runs the end hook
\* of a task that has not started, and blocks (wait) on one that is running.
RECURSIVE Cancel(_, _)
Cancel(w, t) ==
    LET rec == w.tasks[t] IN
    IF rec.kind = "none" \/ rec.ended \/ rec.cancel THEN w
    ELSE LET w1 == [w EXCEPT !.tasks[t].cancel = TRUE]
             w2 == IF rec.next # NULL THEN Cancel(w1, rec.next) ELSE w1
         IN IF rec.state \in {"Created", "Queued"}
            THEN EndTask(w2, t, "Canceled")
            ELSE [w2 EXCEPT !.wait = t]

\* Task::Execute after Run returned: the end state, the end hook, and the
\* continuation (started after success, cancelled otherwise).
Finish(w, t, failed) ==
    LET rec    == w.tasks[t]
        result == IF rec.cancel THEN "Canceled"
                  ELSE IF failed THEN "Failed" ELSE "Finished"
        w1     == EndTask(w, t, result)
    IN IF w1.fatal # "" \/ rec.next = NULL THEN w1
       ELSE IF result = "Finished" THEN Start(w1, rec.next)
       ELSE Cancel(w1, rec.next)

\* Ids of task objects that can be allocated: never used, or ended and no
\* longer referenced.
FreeIds(ts, st) ==
    {t \in TaskIds :
        /\ ts[t].kind = "none" \/ ts[t].ended
        /\ t # st
        /\ \A u \in TaskIds : ts[u].ended \/ ts[u].next # t}

MinOf(S) == CHOOSE x \in S : \A y \in S : x <= y

\* The caller thread between two calls; `result` is what the last
\* CreateStreamingTask returned.
Idle ==
    [pc |-> "idle", arg |-> -1, i |-> -1, result |-> NULL, pre |-> -1,
     preLODs |-> <<>>, wait |-> NULL, target |-> NULL, early |-> FALSE]

Live == fatal = ""

\* The caller is not blocked in Cancel: the task it waits for has ended.
Unblocked == IF caller.wait = NULL THEN TRUE ELSE tasks[caller.wait].ended

\* The draw state of a model instance that was never drawn
\* (PrevLOD -1, LODTransition 255), no draw call made: `pc` is the position
\* inside the draw call, `gap` the frames since the last draw, `lodIndex`
\* the selected LOD, `drawn` the LOD indices the last call drew, and lo, hi
\* the resident range when the call clamped.
NoDraw ==
    [pc |-> "idle", op |-> "", PrevLOD |-> -1, LODTransition |-> 255, gap |-> 0,
     single |-> FALSE, started |-> FALSE, lodIndex |-> -1, drawn |-> <<>>,
     lo |-> 0, hi |-> 0]

\* MeshBufferType, in the order Save requests the downloads.
BufferTypes == <<"Vertex0", "Vertex1", "Vertex2", "Index">>

\* No download task was created.
NoDownloads == [b \in DOMAIN BufferTypes |-> "none"]

\* No SDF: SDF.Texture is nullptr and the metadata is zero.
NoSDFData == [Texture |-> NULL, LOD |-> 0]

\* No call of the API was made.
NoCall ==
    [op |-> "", arg |-> 0, gpu |-> FALSE, cache |-> FALSE, main |-> FALSE,
     fails |-> FALSE, sdf |-> NoSDFData, ret |-> FALSE]

\* The call of an operation without arguments and return value.
Call(op) == [NoCall EXCEPT !.op = op]

\* No mesh was downloaded.
NoMeshData == [vertices |-> 0, triangles |-> 0, use16 |-> FALSE, IB |-> <<>>]

\* A new Model object.
InitObject ==
    /\ alive = TRUE
    /\ isVirtual = FALSE
    /\ initialized = FALSE
    /\ streaming = FALSE
    /\ LODs = <<>>
    /\ loadedLODs = 0
    /\ streamingTask = NULL
    /\ sdfTexture = FALSE
    /\ tasks = [t \in TaskIds |-> NoTask]
    /\ caller = Idle
    /\ fired = 0
    /\ fatal = ""
    /\ MaterialSlots = 0
    /\ Meshes = <<>>
    /\ chunks = NoFile
    /\ loadResult = ""
    /\ SDF = NoSDFData
    /\ call = NoCall
    /\ meshData = NoMeshData
    /\ meshesStream = <<>>
    /\ downloads = NoDownloads
    /\ lodChunks = <<>>
    /\ draw = NoDraw

\* Model::Model in a process with a GPU device of feature level SM5: the
\* constructor enabled the SDF.
Init ==
    /\ InitObject
    /\ device = "SM5"
    /\ EnableModelSDF = 1

\* The task part of the program state after a task operation.
SetWorld(w) ==
    /\ tasks' = w.tasks
    /\ streamingTask' = w.st
    /\ fatal' = w.fatal

(***************************************************************************)
(* Model::CreateStreamingTask                                              *)
(***************************************************************************)
\* Mutant: the assertion does not look at _streamingTask.
CreateAssertNoTask(r) == initialized /\ r >= 0 /\ r <= LODsCount

\* ASSERT(IsInitialized() && Math::IsInRange(residency, 0, LODs.Count())
\*        && _streamingTask == nullptr)
CreateAssert(r) ==
    initialized /\ r >= 0 /\ r <= LODsCount /\ streamingTask = NULL

Abs(x) == IF x < 0 THEN -x ELSE x

\* Mutant: an upgrade of any size passes.
UpgradeAssertAny(lodCount) == TRUE

\* ASSERT(Math::Abs(lodCount) == 1), in the branch lodCount > 0
UpgradeAssert(lodCount) == Abs(lodCount) = 1

\* CreateStreamingTask(r) fails one of its two assertions: the program stops.
CreateRejected(r) ==
    LET lodCount == r - GetCurrentResidency IN
    /\ Live /\ alive /\ streaming /\ caller.pc = "idle"
    /\ IF ~CreateAssert(r) THEN TRUE
       ELSE lodCount > 0 /\ ~UpgradeAssert(lodCount)
    /\ fatal' = "CreateStreamingTask"
    /\ caller' = [Idle EXCEPT !.pc = "create", !.arg = r]
    /\ fired' = 0
    /\ UNCHANGED <<alive, isVirtual, initialized, streaming, LODs, loadedLODs,
                   streamingTask, sdfTexture, tasks>>
    /\ UNCHANGED structure
    /\ UNCHANGED outside
    /\ UNCHANGED SDF

\* Mutant: the LOD at the top of the resident range.
UpgradeLODIndexResident == HighestResidentLODIndex

\* int32 lodIndex = HighestResidentLODIndex() - 1
UpgradeLODIndex == HighestResidentLODIndex - 1

\* Mutant: the streaming task is returned even behind a chunk-read task.
UpgradeResultOwn(chained, c, t) == t

\* if (result) result->ContinueWith(_streamingTask);
\* else result = _streamingTask;
UpgradeResult(chained, c, t) == IF chained THEN c ELSE t

\* CreateStreamingTask(r), the upgrade branch: the streaming task is created
\* and linked, behind the chunk-read task when RequestLODDataAsync returns
\* one.
CreateUpgrade(r) ==
    LET lodCount == r - GetCurrentResidency
        free     == FreeIds(tasks, streamingTask)
        t        == MinOf(free)
        c        == MinOf(free \ {t})
    IN
    /\ Live /\ alive /\ streaming /\ caller.pc = "idle"
    /\ CreateAssert(r)
    /\ lodCount > 0 /\ UpgradeAssert(lodCount)
    /\ fired' = 0
    /\ \E chained \in BOOLEAN :
         /\ Cardinality(free) >= (IF chained THEN 2 ELSE 1)
         /\ tasks' = IF chained
                     THEN [tasks EXCEPT
                             ![t] = NewLODTask(UpgradeLODIndex, loadedLODs, r, FALSE),
                             ![c] = NewChunkTask(t)]
                     ELSE [tasks EXCEPT
                             ![t] = NewLODTask(UpgradeLODIndex, loadedLODs, r, TRUE)]
         /\ streamingTask' = t
         /\ caller' = [Idle EXCEPT !.result = UpgradeResult(chained, c, t)]
    /\ UNCHANGED fatal
    /\ UNCHANGED <<alive, isVirtual, initialized, streaming, LODs, loadedLODs, sdfTexture>>
    /\ UNCHANGED structure
    /\ UNCHANGED outside
    /\ UNCHANGED SDF

\* CreateStreamingTask(r), the else branch is entered under Locker:
\* i = HighestResidentLODIndex().
CreateDowngradeBegin(r) ==
    /\ Live /\ alive /\ streaming /\ caller.pc = "idle"
    /\ CreateAssert(r)
    /\ ~(r - GetCurrentResidency > 0)
    /\ caller' = [Idle EXCEPT !.pc = "downgrade", !.arg = r,
                              !.i = HighestResidentLODIndex,
                              !.pre = loadedLODs, !.preLODs = LODs]
    /\ fired' = 0
    /\ UNCHANGED <<alive, isVirtual, initialized, streaming, LODs, loadedLODs,
                   streamingTask, sdfTexture, tasks, fatal>>
    /\ UNCHANGED structure
    /\ UNCHANGED outside
    /\ UNCHANGED SDF

\* Mutant: the loop runs to the end of the LOD array.
DowngradeEndAll(r) == LODsCount

\* The loop bound: i < LODs.Count() - residency
DowngradeEnd(r) == LODsCount - r

\* LODs[i].Unload(); i++
DowngradeUnload ==
    /\ Live /\ caller.pc = "downgrade"
    /\ caller.i < DowngradeEnd(caller.arg)
    /\ IF caller.i < 0 \/ caller.i >= LODsCount
       THEN /\ fatal' = "LODs"
            /\ UNCHANGED <<LODs, caller>>
       ELSE /\ LODs' = [LODs EXCEPT ![caller.i + 1] = FALSE]
            /\ caller' = [caller EXCEPT !.i = @ + 1]
            /\ UNCHANGED fatal
    /\ fired' = 0
    /\ UNCHANGED <<alive, isVirtual, initialized, streaming, loadedLODs,
                   streamingTask, sdfTexture, tasks>>
    /\ UNCHANGED structure
    /\ UNCHANGED outside
    /\ UNCHANGED SDF

\* _loadedLODs = residency; ResidencyChanged()
DowngradeCommit ==
    /\ Live /\ caller.pc = "downgrade"
    /\ ~(caller.i < DowngradeEnd(caller.arg))
    /\ loadedLODs' = caller.arg
    /\ fired' = 1
    /\ caller' = [caller EXCEPT !.pc = "downgrade_done", !.result = NULL]
    /\ UNCHANGED <<alive, isVirtual, initialized, streaming, LODs, streamingTask,
                   sdfTexture, tasks, fatal>>
    /\ UNCHANGED structure
    /\ UNCHANGED outside
    /\ UNCHANGED SDF

\* return result: the downgrade returns nullptr and Locker is released.
DowngradeReturn ==
    /\ Live /\ caller.pc = "downgrade_done"
    /\ caller' = Idle
    /\ fired' = 0
    /\ UNCHANGED <<alive, isVirtual, initialized, streaming, LODs, loadedLODs,
                   streamingTask, sdfTexture, tasks, fatal>>
    /\ UNCHANGED structure
    /\ UNCHANGED outside
    /\ UNCHANGED SDF

\* ScopeLock lock(Locker) of CreateStreamingTask is held.
LockerHeld == caller.pc \in {"downgrade", "downgrade_done"}

(***************************************************************************)
(* Task execution.                                                         *)
(***************************************************************************)
\* Task::Execute: the queued streaming task starts running on a worker.
TaskExecute(t) ==
    /\ Live /\ tasks[t].kind = "lod" /\ tasks[t].state = "Queued"
    /\ tasks' = [tasks EXCEPT ![t].state = "Running", ![t].pc = "run"]
    /\ fired' = 0
    /\ UNCHANGED <<alive, isVirtual, initialized, streaming, LODs, loadedLODs,
                   streamingTask, sdfTexture, caller, fatal>>
    /\ UNCHANGED structure
    /\ UNCHANGED outside
    /\ UNCHANGED SDF

\* Mutant: Run does not look at the weak reference.
LODRunOutcomesUnchecked(rec) == {"missing", "loadfail", "ok"}

\* The ways Run can go: if (model == nullptr) return true, else the chunk
\* is missing, or Load fails, or Load succeeds.
LODRunOutcomes(rec) ==
    IF rec.asset THEN {"missing", "loadfail", "ok"} ELSE {"dead"}

\* StreamModelLODTask::Run up to the return of LODs[_lodIndex].Load.
LODTaskRun(t) ==
    LET rec == tasks[t] IN
    /\ Live /\ rec.kind = "lod" /\ rec.state = "Running" /\ rec.pc = "run"
    /\ fired' = 0
    /\ \E outcome \in LODRunOutcomes(rec) :
         IF outcome = "ok"
         THEN IF rec.lodIndex < 0 \/ rec.lodIndex >= LODsCount
              THEN /\ fatal' = "LODs"
                   /\ UNCHANGED <<LODs, tasks>>
              ELSE /\ LODs' = [LODs EXCEPT ![rec.lodIndex + 1] = TRUE]
                   /\ tasks' = [tasks EXCEPT ![t].pc = "loaded"]
                   /\ UNCHANGED fatal
         ELSE /\ tasks' = [tasks EXCEPT ![t].pc = "ret_fail"]
              /\ UNCHANGED <<LODs, fatal>>
    /\ UNCHANGED <<alive, isVirtual, initialized, streaming, loadedLODs, streamingTask,
                   sdfTexture, caller>>
    /\ UNCHANGED structure
    /\ UNCHANGED outside
    /\ UNCHANGED SDF

\* Mutant: the residency is counted twice.
CommitResidencyTwice == loadedLODs + 2

\* model->_loadedLODs++
CommitResidency == loadedLODs + 1

\* model->_loadedLODs++; model->ResidencyChanged(); return false
LODTaskCommit(t) ==
    LET rec == tasks[t] IN
    /\ Live /\ rec.kind = "lod" /\ rec.state = "Running" /\ rec.pc = "loaded"
    /\ loadedLODs' = CommitResidency
    /\ fired' = 1
    /\ tasks' = [tasks EXCEPT ![t].pc = "ret_ok"]
    /\ UNCHANGED <<alive, isVirtual, initialized, streaming, LODs, streamingTask,
                   sdfTexture, caller, fatal>>
    /\ UNCHANGED structure
    /\ UNCHANGED outside
    /\ UNCHANGED SDF

\* The chunk read of RequestLODDataAsync completes or fails.
ChunkTaskRun(t) ==
    LET rec == tasks[t] IN
    /\ Live /\ rec.kind = "chunk" /\ rec.state = "Queued"
    /\ \E ok \in BOOLEAN :
         tasks' = [tasks EXCEPT ![t].state = "Running",
                                ![t].pc = IF ok THEN "ret_ok" ELSE "ret_fail"]
    /\ fired' = 0
    /\ UNCHANGED <<alive, isVirtual, initialized, streaming, LODs, loadedLODs,
                   streamingTask, sdfTexture, caller, fatal>>
    /\ UNCHANGED structure
    /\ UNCHANGED outside
    /\ UNCHANGED SDF

\* StreamModelSDFTask::run: MissingResources without the model, else the
\* upload of the mip, which succeeds or fails.
SDFTaskRun(t) ==
    LET rec == tasks[t] IN
    /\ Live /\ rec.kind = "sdf" /\ rec.state = "Queued"
    /\ \E ok \in IF rec.asset THEN BOOLEAN ELSE {FALSE} :
         tasks' = [tasks EXCEPT ![t].state = "Running",
                                ![t].pc = IF ok THEN "ret_ok" ELSE "ret_fail"]
    /\ fired' = 0
    /\ UNCHANGED <<alive, isVirtual, initialized, streaming, LODs, loadedLODs,
                   streamingTask, sdfTexture, caller, fatal>>
    /\ UNCHANGED structure
    /\ UNCHANGED outside
    /\ UNCHANGED SDF

\* Run has returned: the task ends and its OnEnd runs.
TaskEnd(t) ==
    LET rec == tasks[t] IN
    /\ Live /\ rec.state = "Running" /\ rec.pc \in {"ret_ok", "ret_fail"}
    /\ SetWorld(Finish(World, t, rec.pc = "ret_fail"))
    /\ fired' = 0
    /\ UNCHANGED <<alive, isVirtual, initialized, streaming, LODs, loadedLODs,
                   sdfTexture, caller>>
    /\ UNCHANGED structure
    /\ UNCHANGED outside
    /\ UNCHANGED SDF

\* The owner of the GPU tasks cancels an SDF upload task.
CancelSDFTask(t) ==
    /\ Live /\ tasks[t].kind = "sdf" /\ ~tasks[t].ended /\ ~tasks[t].cancel
    /\ SetWorld(Cancel(World, t))
    /\ fired' = 0
    /\ UNCHANGED <<alive, isVirtual, initialized, streaming, LODs, loadedLODs,
                   sdfTexture, caller>>
    /\ UNCHANGED structure
    /\ UNCHANGED outside
    /\ UNCHANGED SDF

(***************************************************************************)
(* Model::CancelStreamingTasks                                             *)
(***************************************************************************)
\* _streamingTask->Cancel()
CancelStreamingTask(w) == Cancel(w, w.st)

\* if (_streamingTask) _streamingTask->Cancel(): the call blocks while the
\* task is running.
CallCancelStreamingTasks ==
    /\ Live /\ alive /\ streaming /\ caller.pc = "idle"
    /\ streamingTask # NULL
    /\ LET w == CancelStreamingTask(World) IN
       /\ SetWorld(w)
       /\ caller' = [Idle EXCEPT !.pc = "cancel_wait", !.wait = w.wait,
                                 !.target = streamingTask,
                                 !.pre = tasks[streamingTask].pre,
                                 !.early = tasks[streamingTask].pc
                                               \in {"none", "run"}]
    /\ fired' = 0
    /\ UNCHANGED <<alive, isVirtual, initialized, streaming, LODs, loadedLODs, sdfTexture>>
    /\ UNCHANGED structure
    /\ UNCHANGED outside
    /\ UNCHANGED SDF

\* Cancel has returned: ASSERT_LOW_LAYER(_streamingTask == nullptr).
CancelReturn ==
    /\ Live /\ caller.pc = "cancel_wait"
    /\ Unblocked
    /\ IF streamingTask # NULL
       THEN /\ fatal' = "CancelStreamingTasks"
            /\ UNCHANGED <<tasks, caller>>
       ELSE /\ caller' = Idle
            /\ UNCHANGED <<tasks, fatal>>
    /\ fired' = 0
    /\ UNCHANGED <<alive, isVirtual, initialized, streaming, LODs, loadedLODs,
                   streamingTask, sdfTexture>>
    /\ UNCHANGED structure
    /\ UNCHANGED outside
    /\ UNCHANGED SDF

(***************************************************************************)
(* Lifecycle: load, unload, destruction, virtual models.                   *)
(***************************************************************************)
\* Mutant: unload forgets the task without cancelling it.
UnloadCancelForget(w) == w

\* Model::unload: if (_streamingTask != nullptr) _streamingTask->Cancel()
UnloadCancel(w) == IF w.st # NULL THEN Cancel(w, w.st) ELSE w

\* Model::unload up to the return of Cancel.
CallUnload ==
    /\ Live /\ alive /\ caller.pc = "idle"
    /\ (initialized \/ LODsCount > 0)
    /\ LET w == UnloadCancel(World) IN
       /\ SetWorld(w)
       /\ caller' = [Idle EXCEPT !.pc = "unload_wait", !.wait = w.wait,
                                 !.target = streamingTask]
    /\ fired' = 0
    /\ UNCHANGED <<alive, isVirtual, initialized, streaming, LODs, loadedLODs, sdfTexture>>
    /\ UNCHANGED structure
    /\ UNCHANGED outside
    /\ UNCHANGED SDF

\* Mutant: unload keeps the residency.
UnloadResidencyKept == loadedLODs

\* _loadedLODs = 0
UnloadResidency == 0

\* Model::unload after Cancel: _streamingTask = nullptr and the cleanup.
UnloadFinish ==
    /\ Live /\ caller.pc = "unload_wait"
    /\ Unblocked
    /\ streamingTask' = NULL
    /\ sdfTexture' = FALSE
    /\ SDF' = [SDF EXCEPT !.Texture = NULL]
    /\ LODs' = <<>>
    /\ loadedLODs' = UnloadResidency
    /\ initialized' = FALSE
    /\ caller' = Idle
    /\ fired' = 0
    /\ UNCHANGED <<alive, isVirtual, streaming, tasks, fatal>>
    /\ MaterialSlots' = 0
    /\ Meshes' = <<>>
    /\ UNCHANGED <<chunks, loadResult>>
    /\ UNCHANGED outside

\* Model::load of a storage-backed model.  The header is missing, or is
\* rejected after LODs was resized to n, or is accepted with n LODs and an
\* SDF chunk of `mips` mips, one StreamModelSDFTask each.  load leaves
\* _loadedLODs alone and ends with StartStreaming, which registers the model
\* with the streaming driver.
LoadAsset ==
    /\ Live /\ alive /\ caller.pc = "idle"
    /\ ~initialized /\ ~isVirtual /\ LODs = <<>>
    /\ \E outcome \in {"MissingDataChunk", "InvalidData", "Ok"},
          n \in 1..MaxLODs, mips \in 0..MaxMips :
         LET free == FreeIds(tasks, streamingTask)
             ids  == {t \in free : Cardinality({u \in free : u < t}) < mips}
         IN
         IF outcome = "Ok"
         THEN /\ Cardinality(free) >= mips
              /\ LODs' = FreshLODs(n)
              /\ sdfTexture' = (mips > 0)
              /\ SDF' = IF mips > 0 THEN [Texture |-> 1, LOD |-> 0] ELSE SDF
              /\ tasks' = [t \in TaskIds |->
                             IF t \in ids THEN NewSDFTask ELSE tasks[t]]
              /\ initialized' = TRUE
              /\ streaming' = TRUE
         ELSE /\ mips = 0
              /\ LODs' = IF outcome = "InvalidData" THEN FreshLODs(n) ELSE LODs
              /\ UNCHANGED <<sdfTexture, SDF, tasks, initialized, streaming>>
    /\ caller' = Idle
    /\ fired' = 0
    /\ UNCHANGED <<alive, isVirtual, loadedLODs, streamingTask, fatal>>
    /\ UNCHANGED structure
    /\ UNCHANGED outside

\* Model::~Model, after unload: ASSERT(_streamingTask == nullptr); the weak
\* references to the model become null.
Destroy ==
    /\ Live /\ alive /\ caller.pc = "idle"
    /\ ~initialized /\ LODs = <<>>
    /\ IF streamingTask # NULL
       THEN /\ fatal' = "~Model"
            /\ UNCHANGED <<alive, tasks>>
       ELSE /\ alive' = FALSE
            /\ tasks' = [t \in TaskIds |-> [tasks[t] EXCEPT !.asset = FALSE]]
            /\ UNCHANGED fatal
    /\ caller' = Idle
    /\ fired' = 0
    /\ UNCHANGED <<isVirtual, initialized, streaming, LODs, loadedLODs, streamingTask,
                   sdfTexture>>
    /\ UNCHANGED structure
    /\ UNCHANGED outside
    /\ UNCHANGED SDF

\* Model::Init(meshesCountPerLod) with n LODs; bad = TRUE when one of the
\* mesh counts is out of range, which returns after LODs was resized and
\* before _loadedLODs is written.  StopStreaming takes the model away from
\* the streaming driver.
ModelInit(n, bad) ==
    /\ streaming' = FALSE
    /\ sdfTexture' = FALSE
    /\ SDF' = [SDF EXCEPT !.Texture = NULL]
    /\ LODs' = FreshLODs(n)
    /\ loadedLODs' = IF bad THEN loadedLODs ELSE n
    /\ fired' = IF bad THEN 0 ELSE 1

\* Model::InitAsVirtual on a new object: Init with one LOD of one mesh.
InitAsVirtual ==
    /\ Live /\ alive /\ caller.pc = "idle"
    /\ ~initialized /\ ~isVirtual /\ LODs = <<>>
    /\ \A t \in TaskIds : tasks[t].kind = "none"
    /\ isVirtual' = TRUE
    /\ initialized' = TRUE
    /\ ModelInit(1, FALSE)
    /\ caller' = Idle
    /\ UNCHANGED <<alive, streamingTask, tasks, fatal>>
    /\ UNCHANGED structure
    /\ UNCHANGED outside

\* Model::SetupLODs on a virtual model.
SetupLODs ==
    /\ Live /\ alive /\ caller.pc = "idle"
    /\ isVirtual /\ initialized
    /\ \E n \in 1..MaxLODs, bad \in BOOLEAN : ModelInit(n, bad)
    /\ caller' = Idle
    /\ UNCHANGED <<alive, isVirtual, initialized, streamingTask, tasks, fatal>>
    /\ UNCHANGED structure
    /\ UNCHANGED outside

(***************************************************************************)
(* Specifications.                                                         *)
(***************************************************************************)
\* The operations of a storage-backed model and of its tasks.
NextStorage ==
    \/ \E r \in 0..MaxLODs : CreateRejected(r)
    \/ \E r \in 0..MaxLODs : CreateUpgrade(r)
    \/ \E r \in 0..MaxLODs : CreateDowngradeBegin(r)
    \/ DowngradeUnload
    \/ DowngradeCommit
    \/ DowngradeReturn
    \/ \E t \in TaskIds : TaskExecute(t)
    \/ \E t \in TaskIds : LODTaskRun(t)
    \/ \E t \in TaskIds : LODTaskCommit(t)
    \/ \E t \in TaskIds : ChunkTaskRun(t)
    \/ \E t \in TaskIds : SDFTaskRun(t)
    \/ \E t \in TaskIds : TaskEnd(t)
    \/ \E t \in TaskIds : CancelSDFTask(t)
    \/ CallCancelStreamingTasks
    \/ CancelReturn
    \/ CallUnload
    \/ UnloadFinish
    \/ LoadAsset
    \/ Destroy

Next ==
    \/ NextStorage
    \/ InitAsVirtual
    \/ SetupLODs

Spec == Init /\ [][Next]_vars

\* A model that is never made virtual.
StorageSpec == Init /\ [][NextStorage]_vars

\* The tasks against a model that may be gone.  The run of a task is a
\* function of the task and of what its weak reference resolves to: the
\* task of slot 1 is a queued StreamModelLODTask or StreamModelSDFTask and
\* slot 2 holds a queued StreamModelSDFTask or nothing; the model is either
\* loaded with n LODs at residency r, the streaming task being its upgrade
\* to r + 1, or destroyed, with every weak reference to it null.
TaskInit ==
    \E n \in 1..MaxLODs, r \in 0..MaxLODs, dead \in BOOLEAN,
       kind \in {"lod", "sdf"}, second \in BOOLEAN :
        /\ r <= n
        /\ kind = "lod" => r < n
        /\ alive = ~dead
        /\ isVirtual = FALSE
        /\ initialized = ~dead
        /\ streaming = ~dead
        /\ LODs = IF dead THEN <<>> ELSE [i \in 1..n |-> i > n - r]
        /\ loadedLODs = IF dead THEN 0 ELSE r
        /\ streamingTask = IF kind = "lod" /\ ~dead THEN 1 ELSE NULL
        /\ sdfTexture = (~dead /\ (kind = "sdf" \/ second))
        /\ tasks = [t \in TaskIds |->
                      IF t = 1
                      THEN IF kind = "lod"
                           THEN [NewLODTask(n - r - 1, r, r + 1, TRUE)
                                   EXCEPT !.asset = ~dead]
                           ELSE [NewSDFTask EXCEPT !.asset = ~dead]
                      ELSE IF t = 2 /\ second
                           THEN [NewSDFTask EXCEPT !.asset = ~dead]
                           ELSE NoTask]
        /\ caller = Idle
        /\ fired = 0
        /\ fatal = ""
        /\ MaterialSlots = 0
        /\ Meshes = <<>>
        /\ chunks = NoFile
        /\ loadResult = ""
        /\ EnableModelSDF = 1
        /\ device = "SM5"
        /\ SDF = [Texture |-> IF ~dead /\ (kind = "sdf" \/ second) THEN 1 ELSE NULL,
                  LOD |-> 0]
        /\ call = NoCall
        /\ meshData = NoMeshData
        /\ meshesStream = <<>>
        /\ downloads = NoDownloads
        /\ lodChunks = <<>>
        /\ draw = NoDraw

TaskNext ==
    \/ \E t \in TaskIds : TaskExecute(t)
    \/ \E t \in TaskIds : LODTaskRun(t)
    \/ \E t \in TaskIds : LODTaskCommit(t)
    \/ \E t \in TaskIds : SDFTaskRun(t)
    \/ \E t \in TaskIds : TaskEnd(t)

TaskSpec == TaskInit /\ [][TaskNext]_vars

(***************************************************************************)
(* The header: Model::Init with its meshes, SetupMaterialSlots, Save and   *)
(* Model::load.                                                            *)
(***************************************************************************)
\* Limits of the header format.
MODEL_MAX_LODS == 6
MODEL_MAX_MESHES == 4096
MaxMaterialSlots == 4096

\* Largest LOD count of a well-formed header that is enumerated, and of a
\* span given to SetupLODs.
MaxHeaderLODs == 2
\* Largest accepted mesh count of a LOD that is enumerated.
MaxHeaderMeshes == 2

\* A mesh that Meshes.Resize allocated and Init has not initialized.
NoMesh == [slot |-> -1, uvs |-> FALSE]

\* Mesh::Init(this, lodIndex, meshIndex, materialSlotIndex, box, sphere,
\* hasLightmapUVs)
MeshInit(slot, uvs) == [slot |-> slot, uvs |-> uvs]

\* meshesCount <= 0 || meshesCount > MODEL_MAX_MESHES
BadMeshCount(c) == c <= 0 \/ c > MODEL_MAX_MESHES

\* The first LOD (1-based) whose mesh count Init rejects, Len + 1 if none.
FirstBad(counts) ==
    MinOf({k \in 1..Len(counts) : BadMeshCount(counts[k])} \cup {Len(counts) + 1})

\* Model::Init, the meshes: every LOD is disposed, LODs is resized, and the
\* LODs before the first rejected mesh count get their meshes, each on
\* material slot 0 with lightmap UVs.
InitMeshes(counts) ==
    [k \in 1..Len(counts) |->
        IF k < FirstBad(counts)
        THEN [j \in 1..counts[k] |-> MeshInit(0, TRUE)]
        ELSE <<>>]

\* Model::Init(meshesCountPerLod) with its effect on the structure.
StructInit(counts) ==
    /\ ModelInit(Len(counts), FirstBad(counts) <= Len(counts))
    /\ MaterialSlots' = 1
    /\ Meshes' = InitMeshes(counts)

\* Model::InitAsVirtual, with the structure.
VirtualInit ==
    /\ Live /\ alive /\ caller.pc = "idle"
    /\ ~initialized /\ ~isVirtual /\ LODs = <<>> /\ ~chunks.open
    /\ isVirtual' = TRUE
    /\ initialized' = TRUE
    /\ StructInit(<<1>>)
    /\ caller' = Idle
    /\ call' = Call("InitAsVirtual")
    /\ UNCHANGED <<alive, streamingTask, tasks, fatal, chunks, loadResult>>
    /\ UNCHANGED <<EnableModelSDF, device, meshData, meshesStream, downloads,
                   lodChunks, draw>>

\* The spans SetupLODs is called with: accepted mesh counts, 0, and a count
\* over the limit.
MeshCountSpans ==
    UNION {[1..n -> (0..MaxHeaderMeshes) \cup {MODEL_MAX_MESHES + 1}] :
             n \in 1..MaxHeaderLODs}

\* Model::SetupLODs on a virtual model, with the structure.  (The model is
\* set up until it is saved.)
VirtualSetupLODs ==
    /\ Live /\ alive /\ caller.pc = "idle"
    /\ isVirtual /\ initialized /\ ~chunks.open
    /\ \E counts \in MeshCountSpans :
         IF Len(counts) > MODEL_MAX_LODS
         THEN /\ UNCHANGED <<streaming, sdfTexture, SDF, LODs, loadedLODs,
                             MaterialSlots, Meshes>>
              /\ fired' = 0
         ELSE StructInit(counts)
    /\ caller' = Idle
    /\ call' = Call("SetupLODs")
    /\ UNCHANGED <<alive, isVirtual, initialized, streamingTask, tasks, fatal,
                   chunks, loadResult>>
    /\ UNCHANGED <<EnableModelSDF, device, meshData, meshesStream, downloads,
                   lodChunks, draw>>

\* ModelBase::SetupMaterialSlots: CHECK(slotsCount >= 0 && slotsCount < 4096)
SlotsCountAccepted(slotsCount) ==
    slotsCount >= 0 /\ slotsCount < MaxMaterialSlots

\* Model::SetupMaterialSlots, the loop over the meshes:
\* if (mesh.GetMaterialSlotIndex() >= slotsCount)
\*     mesh.SetMaterialSlotIndex(slotsCount - 1)
AdjustedMeshes(slotsCount) ==
    [k \in 1..Len(Meshes) |->
       [j \in 1..Len(Meshes[k]) |->
          IF Meshes[k][j].slot >= slotsCount
          THEN [Meshes[k][j] EXCEPT !.slot = slotsCount - 1]
          ELSE Meshes[k][j]]]

\* Model::SetupMaterialSlots: ModelBase::SetupMaterialSlots resizes the slots,
\* or returns at its CHECK, and then the loop over the meshes runs with
\* slotsCount in either case.
SetupMaterialSlots ==
    /\ Live /\ alive /\ caller.pc = "idle"
    /\ isVirtual /\ initialized /\ ~chunks.open
    /\ \E slotsCount \in {-1, 0, 1, 2, MaxMaterialSlots} :
         /\ MaterialSlots' = IF SlotsCountAccepted(slotsCount)
                             THEN slotsCount ELSE MaterialSlots
         /\ Meshes' = AdjustedMeshes(slotsCount)
         /\ call' = [Call("SetupMaterialSlots") EXCEPT !.arg = slotsCount]
    /\ caller' = Idle
    /\ fired' = 0
    /\ UNCHANGED <<alive, isVirtual, initialized, streaming, LODs, loadedLODs,
                   streamingTask, sdfTexture, tasks, fatal, chunks, loadResult>>
    /\ UNCHANGED <<EnableModelSDF, device, SDF, meshData, meshesStream, downloads,
                   lodChunks, draw>>

\* Model::Save, the header stream: WriteInt32 of the slot count, WriteByte of
\* the LOD count, and per LOD WriteUint16 of the mesh count and per mesh
\* WriteInt32 of the slot index and WriteBool of the UV flag.
SaveHeader ==
    [present |-> TRUE,
     slots   |-> MaterialSlots,
     lods    |-> Len(Meshes) % 256,
     entries |-> [k \in 1..Len(Meshes) |->
                    [meshes |-> Len(Meshes[k]) % 65536, list |-> Meshes[k]]]]

\* Mutant: only the main thread rule is checked.
SaveRejectedMainOnly(gpu, main) == gpu /\ main

\* Model::Save, the checks before the lock, for a model that is loaded and
\* a path that is given:
\* withMeshDataFromGpu && IsInMainThread(), IsVirtual() && !withMeshDataFromGpu
SaveRejected(gpu, main) == (gpu /\ main) \/ (isVirtual /\ ~gpu)

\* Model::Save(withMeshDataFromGpu, path) of a loaded model, called on the
\* main thread or not.  With the mesh data from the GPU the downloads
\* succeed or one fails; from the drive the chunks are loaded.  The SDF
\* chunk is written from the SDF texture (version 1, the mips of the
\* texture), kept, or released; the header stream becomes chunk 0;
\* SaveAsset succeeds or fails.  A virtual model is saved to a file of its
\* own (and is set up until then), a storage-backed model to its chunks.
Save ==
    /\ Live /\ alive /\ caller.pc = "idle"
    /\ initialized
    /\ isVirtual => ~chunks.open
    /\ \E gpu \in BOOLEAN, main \in BOOLEAN, download \in {"ok", "fails"},
          saveAsset \in {"ok", "fails"}, m \in 1..MaxMips :
         LET written ==
               [open   |-> TRUE,
                header |-> SaveHeader,
                sdf    |-> IF gpu
                           THEN IF sdfTexture
                                THEN [present |-> TRUE, version |-> 1, mips |-> m]
                                ELSE chunks.sdf
                           ELSE IF sdfTexture THEN chunks.sdf ELSE NoSDF]
         IN
         IF SaveRejected(gpu, main) \/ (gpu /\ download = "fails")
         THEN /\ call' = [Call("Save") EXCEPT !.gpu = gpu, !.main = main,
                                              !.ret = TRUE]
              /\ UNCHANGED chunks
         ELSE /\ call' = [Call("Save") EXCEPT !.gpu = gpu, !.main = main,
                                              !.ret = (saveAsset = "fails")]
              /\ chunks' = IF isVirtual /\ saveAsset = "fails" THEN chunks
                           ELSE written
    /\ caller' = Idle
    /\ fired' = 0
    /\ UNCHANGED <<alive, isVirtual, initialized, streaming, LODs, loadedLODs,
                   streamingTask, sdfTexture, tasks, fatal, MaterialSlots,
                   Meshes, loadResult>>
    /\ UNCHANGED <<EnableModelSDF, device, SDF, meshData, meshesStream, downloads,
                   lodChunks, draw>>

\* Mutant: a header without material slots is accepted.
SlotsCountInvalidZeroOk(n) == n < 0 \/ n > MaxMaterialSlots

\* materialSlotsCount <= 0 || materialSlotsCount > 4096
SlotsCountInvalid(n) == n <= 0 \/ n > MaxMaterialSlots

\* lods == 0 || lods > MODEL_MAX_LODS
LODsCountInvalid(n) == n = 0 \/ n > MODEL_MAX_LODS

\* materialSlotIndex < 0 || materialSlotIndex >= materialSlotsCount
SlotIndexInvalid(i, n) == i < 0 \/ i >= n

\* The meshes of one LOD as load leaves them: resized to the count, and
\* initialized up to the first mesh whose slot index is rejected.
ParseMeshes(entry, slots) ==
    LET bad  == {j \in 1..entry.meshes :
                   SlotIndexInvalid(entry.list[j].slot, slots)}
        stop == MinOf(bad \cup {entry.meshes + 1})
    IN [ok     |-> bad = {},
        meshes |-> [j \in 1..entry.meshes |->
                      IF j < stop
                      THEN MeshInit(entry.list[j].slot, entry.list[j].uvs)
                      ELSE NoMesh]]

\* Model::load, the loop over the LODs from LOD k on; m is the LOD array
\* after LODs.Resize with the LODs before k read.  The ASSERT on the mesh
\* counts is there in a build with assertions (asserts) and expands to
\* nothing in a build without.
RECURSIVE ParseLODs(_, _, _, _)
ParseLODs(h, k, m, asserts) ==
    IF k > h.lods THEN [result |-> "Ok", Meshes |-> m]
    ELSE LET entry == h.entries[k] IN
         IF entry.meshes = 0 \/ entry.meshes > MODEL_MAX_MESHES
         THEN [result |-> "InvalidData", Meshes |-> m]
         ELSE IF asserts /\ k > 1 /\ Len(m[1]) < entry.meshes
         THEN [result |-> "ASSERT", Meshes |-> m]
         ELSE LET p  == ParseMeshes(entry, h.slots)
                  m1 == [m EXCEPT ![k] = p.meshes]
              IN IF p.ok THEN ParseLODs(h, k + 1, m1, asserts)
                 ELSE [result |-> "InvalidData", Meshes |-> m1]

\* Model::load up to the SDF chunk, on an object without slots and LODs:
\* the result ("ASSERT" when the assertion on the mesh counts fails) and
\* what is left in MaterialSlots and in the LODs.
ParseHeader(h, asserts) ==
    IF ~h.present
    THEN [result |-> "MissingDataChunk", MaterialSlots |-> 0, Meshes |-> <<>>]
    ELSE IF SlotsCountInvalid(h.slots)
    THEN [result |-> "InvalidData", MaterialSlots |-> 0, Meshes |-> <<>>]
    ELSE IF LODsCountInvalid(h.lods)
    THEN [result |-> "InvalidData", MaterialSlots |-> h.slots, Meshes |-> <<>>]
    ELSE LET p == ParseLODs(h, 1, [k \in 1..h.lods |-> <<>>], asserts)
         IN [result |-> p.result, MaterialSlots |-> h.slots, Meshes |-> p.Meshes]

\* Mutant: every version tag is read as version 1.
SDFVersionKnownAny(version) == TRUE

\* switch (version) case 1
SDFVersionKnown(version) == version = 1

\* Model::load of the file that is open, on a new storage-backed object.
\* The build has assertions or not, the SDF chunk is looked at only when
\* EnableModelSDF is 1, and GPUTexture::Init of the SDF texture succeeds
\* or fails.  The SDF header of the enumerated chunks has LOD 0.
Load ==
    \E asserts \in BOOLEAN :
    LET p == ParseHeader(chunks.header, asserts) IN
    /\ Live /\ alive /\ caller.pc = "idle"
    /\ ~initialized /\ ~isVirtual /\ LODs = <<>>
    /\ MaterialSlots = 0 /\ Meshes = <<>>
    /\ chunks.open /\ loadResult = ""
    /\ caller' = Idle
    /\ fired' = 0
    /\ IF p.result = "ASSERT"
       THEN /\ fatal' = "load"
            /\ UNCHANGED <<MaterialSlots, Meshes, LODs, loadResult, sdfTexture,
                           SDF, tasks, initialized, streaming>>
       ELSE /\ MaterialSlots' = p.MaterialSlots
            /\ Meshes' = p.Meshes
            /\ LODs' = FreshLODs(Len(p.Meshes))
            /\ UNCHANGED fatal
            /\ IF p.result # "Ok"
               THEN /\ loadResult' = p.result
                    /\ UNCHANGED <<sdfTexture, SDF, tasks, initialized, streaming>>
               ELSE \E enabled \in {EnableModelSDF = 1},
                       textureInit \in {"ok", "fails"} :
                      LET sdf  == /\ chunks.sdf.present /\ enabled
                                  /\ SDFVersionKnown(chunks.sdf.version)
                          mips == IF sdf THEN chunks.sdf.mips ELSE 0
                          free == FreeIds(tasks, streamingTask)
                          ids  == {t \in free :
                                     Cardinality({u \in free : u < t}) < mips}
                      IN
                      /\ Cardinality(free) >= mips
                      /\ sdfTexture' = sdf
                      /\ IF sdf /\ textureInit = "fails"
                         THEN /\ loadResult' = "Failed"
                              /\ SDF' = [SDF EXCEPT !.Texture = 1]
                              /\ UNCHANGED <<tasks, initialized, streaming>>
                         ELSE /\ loadResult' = "Ok"
                              /\ tasks' = [t \in TaskIds |->
                                             IF t \in ids THEN NewSDFTask
                                             ELSE tasks[t]]
                              /\ initialized' = TRUE
                              /\ streaming' = TRUE
                              /\ SDF' = IF sdf THEN [Texture |-> 1, LOD |-> 0]
                                        ELSE SDF
    /\ call' = Call("load")
    /\ UNCHANGED <<alive, isVirtual, loadedLODs, streamingTask, chunks>>
    /\ UNCHANGED <<EnableModelSDF, device, meshData, meshesStream, downloads,
                   lodChunks, draw>>

\* The LOD tables that are enumerated: the meshes of a LOD share their slot
\* index and UV flag, and a LOD whose mesh count load rejects has no meshes
\* to read.
LODEntries ==
    {[meshes |-> c,
      list   |-> [j \in 1..(IF BadMeshCount(c) THEN 0 ELSE c) |-> MeshInit(i, uvs)]] :
        c \in (0..MaxHeaderMeshes) \cup {MODEL_MAX_MESHES + 1},
        i \in {-1, 0, 1}, uvs \in BOOLEAN}

\* The header chunks that are enumerated: slot counts at and around the
\* limits; LOD counts 0 and MODEL_MAX_LODS + 1, after which nothing is
\* read, and 1..MaxHeaderLODs with their LOD tables.  After a slot count
\* that load rejects at most one LOD follows.
Headers ==
    LET SlotCounts == {-1, 0, 1, 2, MaxMaterialSlots, MaxMaterialSlots + 1}
        Tables     == UNION {[1..k -> LODEntries] : k \in 1..MaxHeaderLODs}
    IN {[present |-> TRUE, slots |-> n, lods |-> l, entries |-> <<>>] :
           n \in SlotCounts, l \in {0, MODEL_MAX_LODS + 1}}
       \cup
       {[present |-> TRUE, slots |-> n, lods |-> Len(e), entries |-> e] :
           n \in {1, 2, MaxMaterialSlots}, e \in Tables}
       \cup
       {[present |-> TRUE, slots |-> n, lods |-> 1, entries |-> <<e>>] :
           n \in {-1, 0, MaxMaterialSlots + 1}, e \in LODEntries}

\* The SDF chunks that are enumerated: version 1 and an unknown version.
SDFChunks ==
    {[present |-> TRUE, version |-> v, mips |-> m] :
        v \in {1, 2}, m \in 0..MaxMips}

\* The asset file of a new object is opened: its chunks 0 and 15, out of
\* the headers H and the SDF chunks C, are there to be loaded.
OpenFileFrom(H, C) ==
    /\ Live /\ alive /\ caller.pc = "idle"
    /\ ~initialized /\ ~isVirtual /\ LODs = <<>> /\ ~chunks.open
    /\ \E h \in H, c \in C :
         chunks' = [open |-> TRUE, header |-> h, sdf |-> c]
    /\ caller' = Idle
    /\ fired' = 0
    /\ call' = NoCall
    /\ UNCHANGED <<alive, isVirtual, initialized, streaming, LODs, loadedLODs,
                   streamingTask, sdfTexture, tasks, fatal, MaterialSlots,
                   Meshes, loadResult>>
    /\ UNCHANGED <<EnableModelSDF, device, SDF, meshData, meshesStream, downloads,
                   lodChunks, draw>>

\* The asset file is one of the enumerated headers with one of the
\* enumerated SDF chunks.
OpenFile == OpenFileFrom(Headers \cup {MissingHeader}, SDFChunks \cup {NoSDF})

HeaderNext ==
    \/ OpenFile
    \/ Load
    \/ VirtualInit
    \/ VirtualSetupLODs
    \/ SetupMaterialSlots
    \/ Save

\* A new object that is either loaded from a file or set up as a virtual
\* model and saved.
HeaderSpec == Init /\ [][HeaderNext]_vars

(***************************************************************************)
(* The SDF: the decision of the constructor, GenerateSDF and SetSDF.       *)
(***************************************************************************)
\* GPUDevice::Instance: no device, or a device below or at feature level SM5.
Devices == {"none", "SM4", "SM5"}

\* Model::Model:
\* if (EnableModelSDF == 0 && GPUDevice::Instance)
\*     EnableModelSDF = GetFeatureLevel() >= FeatureLevel::SM5 ? 1 : 2
DecideSDF(e, d) ==
    IF e = 0 /\ d # "none" THEN (IF d = "SM5" THEN 1 ELSE 2) ELSE e

\* Model::Model of another model of the process.
NewModel ==
    /\ Live
    /\ EnableModelSDF' = DecideSDF(EnableModelSDF, device)
    /\ call' = Call("Model")
    /\ fired' = 0
    /\ UNCHANGED <<alive, isVirtual, initialized, streaming, LODs, loadedLODs,
                   streamingTask, sdfTexture, tasks, caller, fatal>>
    /\ UNCHANGED structure
    /\ UNCHANGED <<device, SDF, meshData, meshesStream, downloads,
                   lodChunks, draw>>

\* The GPU device is created, disposed or replaced by one of another
\* feature level.
SetDevice ==
    /\ Live
    /\ \E d \in Devices \ {device} : device' = d
    /\ call' = NoCall
    /\ fired' = 0
    /\ UNCHANGED <<alive, isVirtual, initialized, streaming, LODs, loadedLODs,
                   streamingTask, sdfTexture, tasks, caller, fatal>>
    /\ UNCHANGED structure
    /\ UNCHANGED <<EnableModelSDF, SDF, meshData, meshesStream, downloads,
                   lodChunks, draw>>

\* Model::HasAnyLODInitialized: the last LOD has its GPU buffers.
HasAnyLODInitialized == LODsCount > 0 /\ LODs[LODsCount]

\* Math::Clamp(value, min, max)
Clamp(value, min, max) ==
    IF value < min THEN min ELSE IF value < max THEN value ELSE max

\* Mutant: a virtual model is refused on every thread.
GenerateRefusedVirtual(main) ==
    IF EnableModelSDF = 2 THEN "disabled"
    ELSE IF ~HasAnyLODInitialized THEN "no LOD"
    ELSE IF isVirtual THEN "virtual on the main thread"
    ELSE ""

\* Model::GenerateSDF, the returns before the generation: the reason of the
\* return, "" when the generation is run.
GenerateRefused(main) ==
    IF EnableModelSDF = 2 THEN "disabled"
    ELSE IF ~HasAnyLODInitialized THEN "no LOD"
    ELSE IF main /\ isVirtual THEN "virtual on the main thread"
    ELSE ""

\* Model::GenerateSDF(resolutionScale, lodIndex, cacheData, backfacesThreshold)
\* called on the main thread or not, in an editor build or not;
\* ModelTool::GenerateModelSDF fails and leaves the SDF, or succeeds and
\* fills the SDF (into the texture there is, or a new one) for the clamped
\* LOD index and, for the cache, a stream of version 1.
GenerateSDF ==
    /\ Live /\ alive /\ caller.pc = "idle"
    /\ \E lodIndex \in {0, MaxLODs}, cacheData \in BOOLEAN, main \in BOOLEAN,
          fails \in BOOLEAN, editor \in BOOLEAN, m \in 1..MaxMips :
         LET lod   == Clamp(lodIndex, HighestResidentLODIndex, LODsCount - 1)
             cache == editor /\ cacheData /\ ~isVirtual
             this  == [Call("GenerateSDF") EXCEPT !.arg = lodIndex,
                         !.cache = cacheData, !.main = main, !.fails = fails]
         IN
         IF GenerateRefused(main) # "" \/ fails
         THEN /\ call' = [this EXCEPT !.ret = TRUE]
              /\ UNCHANGED <<SDF, sdfTexture, chunks>>
         ELSE /\ call' = [this EXCEPT !.ret = FALSE]
              /\ SDF' = [Texture |-> IF SDF.Texture # NULL THEN SDF.Texture ELSE 2,
                         LOD     |-> lod]
              /\ sdfTexture' = TRUE
              /\ chunks' = IF cache
                           THEN [chunks EXCEPT !.sdf = [present |-> TRUE,
                                                        version |-> 1,
                                                        mips    |-> m]]
                           ELSE chunks
    /\ caller' = Idle
    /\ fired' = 0
    /\ UNCHANGED <<alive, isVirtual, initialized, streaming, LODs, loadedLODs,
                   streamingTask, tasks, fatal, MaterialSlots, Meshes,
                   loadResult>>
    /\ UNCHANGED <<EnableModelSDF, device, meshData, meshesStream, downloads,
                   lodChunks, draw>>

\* The SDF data SetSDF is called with: no texture, the texture load
\* creates, the texture the generation creates; two values of the metadata.
SDFArguments == {[Texture |-> t, LOD |-> l] : t \in {NULL, 1, 2}, l \in {0, 1}}

\* if (SDF.Texture == sdf.Texture) return
SameSDF(sdf) == SDF.Texture = sdf.Texture

\* Model::SetSDF
SetSDF ==
    /\ Live /\ alive /\ caller.pc = "idle"
    /\ \E sdf \in SDFArguments :
         /\ call' = [Call("SetSDF") EXCEPT !.sdf = sdf]
         /\ IF SameSDF(sdf)
            THEN UNCHANGED <<SDF, sdfTexture, chunks>>
            ELSE /\ SDF' = sdf
                 /\ sdfTexture' = (sdf.Texture # NULL)
                 /\ chunks' = [chunks EXCEPT !.sdf = NoSDF]
    /\ caller' = Idle
    /\ fired' = 0
    /\ UNCHANGED <<alive, isVirtual, initialized, streaming, LODs, loadedLODs,
                   streamingTask, tasks, fatal, MaterialSlots, Meshes,
                   loadResult>>
    /\ UNCHANGED <<EnableModelSDF, device, meshData, meshesStream, downloads,
                   lodChunks, draw>>

\* A header of n LODs with one mesh each, on the one material slot.
PlainHeader(n) ==
    [present |-> TRUE, slots |-> 1, lods |-> n,
     entries |-> [k \in 1..n |->
                    [meshes |-> 1, list |-> <<MeshInit(0, TRUE)>>]]]

\* The asset file is a plain header with one of the enumerated SDF chunks.
OpenPlainFile ==
    OpenFileFrom({PlainHeader(n) : n \in 1..MaxHeaderLODs}, SDFChunks \cup {NoSDF})

\* A model: a new object; or a storage-backed model after load, with a
\* plain header and r of its n LODs streamed in; or a virtual model after
\* SetupLODs whose meshes were uploaded or not.
ModelState(kind, n, r, uploaded) ==
    /\ alive = TRUE
    /\ isVirtual = (kind = "virtual")
    /\ initialized = (kind # "new")
    /\ streaming = (kind = "storage")
    /\ LODs = IF kind = "new" THEN <<>>
              ELSE IF kind = "virtual" THEN [i \in 1..n |-> uploaded]
              ELSE [i \in 1..n |-> i > n - r]
    /\ loadedLODs = r
    /\ streamingTask = NULL
    /\ sdfTexture = FALSE
    /\ tasks = [t \in TaskIds |-> NoTask]
    /\ caller = Idle
    /\ fired = 0
    /\ fatal = ""
    /\ MaterialSlots = IF kind = "new" THEN 0 ELSE 1
    /\ Meshes = IF kind = "new" THEN <<>>
                ELSE [k \in 1..n |-> <<MeshInit(0, TRUE)>>]
    /\ chunks = IF kind = "storage"
                THEN [open |-> TRUE, header |-> PlainHeader(n), sdf |-> NoSDF]
                ELSE NoFile
    /\ loadResult = IF kind = "storage" THEN "Ok" ELSE ""
    /\ SDF = NoSDFData
    /\ call = NoCall

\* A model of the process, constructed before or after the device was
\* created and the SDF was decided.  GPU buffers need a device.
ApiInit ==
    \E kind \in {"new", "storage", "virtual"}, n \in 1..MaxHeaderLODs,
       r \in 0..MaxHeaderLODs, uploaded \in BOOLEAN, d \in Devices,
       e \in 0..2 :
        /\ r <= n
        /\ kind = "new" => (n = 1 /\ r = 0)
        /\ kind # "virtual" => ~uploaded
        /\ kind = "virtual" => r = n
        /\ (r > 0 \/ uploaded) => d # "none"
        /\ device = d
        /\ EnableModelSDF = e
        /\ ModelState(kind, n, r, uploaded)
        /\ meshData = NoMeshData
        /\ meshesStream = <<>>
        /\ downloads = NoDownloads
        /\ lodChunks = <<>>
        /\ draw = NoDraw

ApiNext ==
    \/ NewModel
    \/ SetDevice
    \/ OpenPlainFile
    \/ Load
    \/ GenerateSDF
    \/ SetSDF
    \/ Save

\* The calls of the API on a model, in a process whose device and SDF
\* decision change.
ApiSpec == ApiInit /\ [][ApiNext]_vars

(***************************************************************************)
(* Save with the mesh data from the GPU: the index buffer of a mesh.       *)
(***************************************************************************)
\* MAX_uint16
MAX_uint16 == 65535

\* The number of indices of a buffer that are followed, from its start.
IndexSamples == 3

\* The index values that are enumerated: around the limit of 16 bits.
IndexValues == {0, 2, MAX_uint16, MAX_uint16 + 1, MAX_uint16 + 2}

\* The indices of the buffer that are followed.
Sampled(indicesCount) ==
    IF indicesCount < IndexSamples THEN indicesCount ELSE IndexSamples

\* The meshes Save downloads: no triangle, one triangle, the most triangles
\* whose indices count up to MAX_uint16, and one triangle more; 16 bit
\* indices (at most MAX_uint16) or 32 bit indices, each below the vertex
\* count.
MeshDatas ==
    {d \in [vertices  : {3, MAX_uint16 + 1, MAX_uint16 + 3},
            triangles : {0, 1, MAX_uint16 \div 3, MAX_uint16 \div 3 + 1},
            use16     : BOOLEAN,
            IB        : UNION {[1..k -> IndexValues] :
                                 k \in {0, Sampled(3), IndexSamples}}] :
       /\ Len(d.IB) = Sampled(d.triangles * 3)
       /\ \A i \in 1..Len(d.IB) :
            /\ d.IB[i] < d.vertices
            /\ d.use16 => d.IB[i] <= MAX_uint16}

\* meshesStream.WriteUint16(ib[i]): the value is converted to uint16.
WriteUint16(v) == v % 65536

\* Model::Save, the data of one mesh after the download: the empty mesh is
\* refused; the indices are written as they are when the width of the
\* buffer is the one derived from the count, narrowed one by one when the
\* buffer has 32 bit and 16 are derived, and CRASH otherwise.
WriteMesh ==
    LET d == meshData
        indicesCount == d.triangles * 3
        shouldUse16BitIndexBuffer == indicesCount <= MAX_uint16
    IN
    /\ Live /\ alive /\ caller.pc = "idle"
    /\ initialized /\ meshData # NoMeshData /\ call.op # "Save"
    /\ IF d.vertices = 0 \/ d.triangles = 0
       THEN /\ call' = [Call("Save") EXCEPT !.gpu = TRUE, !.ret = TRUE]
            /\ UNCHANGED <<meshesStream, fatal>>
       ELSE IF shouldUse16BitIndexBuffer = d.use16
       THEN /\ call' = [Call("Save") EXCEPT !.gpu = TRUE]
            /\ meshesStream' = d.IB
            /\ UNCHANGED fatal
       ELSE IF shouldUse16BitIndexBuffer
       THEN /\ call' = [Call("Save") EXCEPT !.gpu = TRUE]
            /\ meshesStream' = [i \in 1..Len(d.IB) |-> WriteUint16(d.IB[i])]
            /\ UNCHANGED fatal
       ELSE /\ fatal' = "CRASH"
            /\ call' = [Call("Save") EXCEPT !.gpu = TRUE]
            /\ UNCHANGED meshesStream
    /\ caller' = Idle
    /\ fired' = 0
    /\ UNCHANGED <<alive, isVirtual, initialized, streaming, LODs, loadedLODs,
                   streamingTask, sdfTexture, tasks>>
    /\ UNCHANGED structure
    /\ UNCHANGED <<EnableModelSDF, device, SDF, meshData, downloads,
                   lodChunks, draw>>

\* A virtual model with one uploaded mesh, whose buffers Save downloaded.
IndexInit ==
    /\ ModelState("virtual", 1, 1, TRUE)
    /\ device = "SM5"
    /\ EnableModelSDF = 1
    /\ meshData \in MeshDatas
    /\ meshesStream = <<>>
    /\ downloads = NoDownloads
    /\ lodChunks = <<>>
    /\ draw = NoDraw

IndexNext == WriteMesh

\* Save with the mesh data from the GPU, for one mesh.
IndexSpec == IndexInit /\ [][IndexNext]_vars

(***************************************************************************)
(* Properties.                                                             *)
(***************************************************************************)
\* The streaming tasks of the model that have not run their OnEnd hook.
LiveLODTasks == {t \in TaskIds : tasks[t].kind = "lod" /\ ~tasks[t].ended}

\* The caller takes this step.
CallerStep == caller' # caller

\* This step is an accepted upgrade request: a streaming task is linked.
UpgradeStep == streamingTask = NULL /\ streamingTask' # NULL

\* This step is a step of streaming task t on a worker.
LODTaskStep(t) ==
    /\ tasks[t].kind = "lod" /\ tasks[t].state = "Running"
    /\ tasks'[t] # tasks[t]
    /\ ~CallerStep

\* C1: under every sequence of CreateStreamingTask calls, streaming task
\* runs (success, missing chunk, load failure) and cancellations on a
\* storage-backed model, 0 <= _loadedLODs <= LODs.Count().
C1_ResidencyInRange == 0 <= loadedLODs /\ loadedLODs <= LODsCount

\* A streaming task has brought the last LOD in: the residency is at its top.
C1_Witness ==
    /\ loadedLODs = LODsCount /\ LODsCount > 1
    /\ \E t \in TaskIds : tasks[t].kind = "lod" /\ tasks[t].pc = "ret_ok"

\* C2: at any time at most one streaming task of the model has been
\* created and has not yet run its OnEnd hook.
C2_AtMostOneTask == Cardinality(LiveLODTasks) <= 1

\* A streaming task is running after an earlier one of the model has ended.
C2_Witness ==
    /\ \E t \in LiveLODTasks : tasks[t].state = "Running"
    /\ \E u \in TaskIds : tasks[u].kind = "lod" /\ tasks[u].ended

\* The request of this step, when it is a CreateStreamingTask call: r is
\* the residency asked for.
CreateCallStep(r) ==
    /\ caller.pc = "idle"
    /\ \/ caller'.pc \in {"create", "downgrade"} /\ caller'.arg = r
       \/ UpgradeStep /\ tasks'[streamingTask'].target = r

\* The step leaves the model as it was and fires no notification.
NoSideEffects ==
    /\ UNCHANGED <<LODs, loadedLODs, streamingTask, tasks>>
    /\ fired' = 0

C4_UpgradeCommit ==
    [][/\ UpgradeStep =>
            /\ loadedLODs' = loadedLODs /\ LODs' = LODs /\ fired' = 0
            /\ tasks'[streamingTask'].lodIndex
                 = LODsCount - tasks'[streamingTask'].target
            /\ tasks'[streamingTask'].target = loadedLODs + 1
       /\ \A t \in TaskIds :
            LODTaskStep(t) =>
              IF tasks[t].pc = "loaded"
              THEN /\ LODs[tasks[t].lodIndex + 1]
                   /\ tasks[t].lodIndex = LODsCount - tasks[t].target
                   /\ loadedLODs' = loadedLODs + 1
                   /\ loadedLODs' = tasks[t].target
                   /\ fired' = 1
                   /\ tasks'[t].pc = "ret_ok"
              ELSE loadedLODs' = loadedLODs /\ fired' = 0]_vars

\* A streaming task has just committed the residency it was created for.
C4_Witness ==
    \E t \in TaskIds :
        /\ tasks[t].kind = "lod" /\ tasks[t].pc = "ret_ok"
        /\ fired = 1 /\ loadedLODs = tasks[t].target
        /\ LODs[tasks[t].lodIndex + 1]

\* C5: when the chunk is missing or Load fails, Run returns true with
\* _loadedLODs and the LODs unchanged and nothing fired; the task that is
\* not cancelled then ends Failed; after its OnEnd the residency is still
\* the one before the request and the model has no outstanding task.
C5_FailedRun ==
    [][\A t \in TaskIds :
         LODTaskStep(t) =>
           /\ tasks'[t].pc = "ret_fail" =>
                loadedLODs' = loadedLODs /\ LODs' = LODs /\ fired' = 0
           /\ tasks[t].pc = "ret_fail" =>
                /\ tasks'[t].ended
                /\ ~tasks[t].cancel => tasks'[t].state = "Failed"
                /\ loadedLODs' = tasks[t].pre /\ fired' = 0
                /\ streamingTask' = NULL
                /\ initialized' => CanBeUpdated']_vars

\* A streaming task has ended Failed and the model is free for a request.
C5_Witness ==
    /\ CanBeUpdated /\ caller.pc = "idle" /\ loadedLODs = 1
    /\ \E t \in TaskIds : tasks[t].kind = "lod" /\ tasks[t].state = "Failed"

\* The LODs a downgrade from `pre` to `r` is to unload.
DowngradeRange(pre, r) == {i \in 0..(LODsCount - 1) :
                             LODsCount - pre <= i /\ i < LODsCount - r}

\* C6: a downgrade (target < current) runs within the call: every step of
\* it leaves _streamingTask null and creates no task; a step before the
\* last unloads one LOD of [LODs.Count() - current, LODs.Count() - target)
\* and fires nothing; the last one sets _loadedLODs to the target and fires
\* ResidencyChanged once, with exactly the LODs of that range unloaded and
\* every other LOD as before, and the call returns no task.
C6_Downgrade ==
    [][caller.pc = "downgrade" /\ CallerStep /\ caller.arg < caller.pre =>
         /\ streamingTask = NULL /\ streamingTask' = NULL
         /\ LiveLODTasks' = {}
         /\ IF caller'.pc = "downgrade"
            THEN /\ caller.i \in DowngradeRange(caller.pre, caller.arg)
                 /\ LODs' = [LODs EXCEPT ![caller.i + 1] = FALSE]
                 /\ loadedLODs' = loadedLODs /\ fired' = 0
            ELSE /\ caller'.pc = "downgrade_done"
                 /\ caller'.result = NULL
                 /\ loadedLODs' = caller.arg /\ fired' = 1
                 /\ LODs' = [i \in 1..LODsCount |->
                               IF (i - 1) \in DowngradeRange(caller.pre, caller.arg)
                               THEN FALSE ELSE caller.preLODs[i]]]_vars

\* A downgrade of two steps has just committed.
C6_Witness ==
    /\ caller.pc = "downgrade_done" /\ fired = 1
    /\ caller.pre - caller.arg = 2 /\ loadedLODs = caller.arg
    /\ caller.arg > 0
    /\ \A i \in 1..LODsCount : caller.preLODs[i] = (i > LODsCount - caller.pre)

\* C7 as stated: when CancelStreamingTasks is called on an upgrade task
\* whose Run has not completed the LOD load, then at the return of the call
\* _streamingTask is null and _loadedLODs is the residency before the
\* upgrade was requested.
C7_CancelRestores ==
    [][caller.pc = "cancel_wait" /\ caller'.pc = "idle" /\ caller.early =>
         streamingTask' = NULL /\ loadedLODs' = caller.pre]_vars

\* C8: when a cancellation of the model's streaming task returns, from
\* CancelStreamingTasks or from unload, the task has run its OnEnd, holds
\* no reference to the model and is not the model's task; and a task that
\* has ended takes no further step (its object is only ever replaced by a
\* newly constructed task).
C8_CancelledTaskGone ==
    [][/\ caller.pc \in {"cancel_wait", "unload_wait"} /\ caller'.pc = "idle"
          /\ caller.target # NULL
          => /\ tasks'[caller.target].ended
             /\ ~tasks'[caller.target].asset
             /\ streamingTask' # caller.target
       /\ \A t \in TaskIds :
            tasks[t].ended /\ tasks'[t] # tasks[t] =>
              ~tasks'[t].ended /\ tasks'[t].state \in {"Created", "Queued"}]_vars

\* A cancellation that found the task running is about to return.
C8_Witness ==
    /\ caller.pc \in {"cancel_wait", "unload_wait"}
    /\ caller.wait # NULL /\ caller.wait = caller.target
    /\ tasks[caller.wait].ended /\ tasks[caller.wait].state = "Canceled"

\* C9 as stated: in every state a lock-free reader can observe, every LOD
\* of the resident range [LODs.Count() - _loadedLODs, LODs.Count()) has
\* its GPU buffers.
C9_ResidentLoaded ==
    \A i \in 0..(LODsCount - 1) : i >= HighestResidentLODIndex => LODs[i + 1]

\* The storage locks the tasks hold and have released.
LockOnce(t) ==
    IF tasks[t].ended
    THEN tasks[t].locks = 0 /\ tasks[t].releases = 1
    ELSE tasks[t].locks = 1 /\ tasks[t].releases = 0

\* C10: every StreamModelLODTask and StreamModelSDFTask holds one storage
\* lock from its construction to its end and has released it exactly once
\* when it has ended, however it ended.
C10_LockReleasedOnce ==
    \A t \in TaskIds : tasks[t].kind \in {"lod", "sdf"} => LockOnce(t)

\* An SDF task has ended without its model and a streaming task by
\* cancellation.
C10_Witness ==
    /\ ~alive
    /\ \E t \in TaskIds :
         tasks[t].kind = "sdf" /\ tasks[t].ended /\ tasks[t].state = "Failed"
    /\ \E t \in TaskIds :
         tasks[t].kind = "lod" /\ tasks[t].ended /\ tasks[t].state = "Canceled"

\* The LODs of the resident range [LODs.Count() - _loadedLODs, LODs.Count()).
ResidentRange == {i \in 0..(LODsCount - 1) : i >= HighestResidentLODIndex}

\* C11: on a model of 3 LODs, the upgrade requested at residency r creates
\* a task for LOD 2 - r, whose Load step loads that LOD and no other (LOD 2,
\* then 1, then 0) and
\* its commit raises the residency by one, firing ResidencyChanged once,
\* with the resident LODs loaded; and a request of residency 0 at
\* residency 3 is accepted, its steps before the last fire nothing, and
\* its last step leaves no LOD loaded and residency 0 and fires
\* ResidencyChanged once.
C11_ThreeUpgradesOneDowngrade ==
    [][LODsCount = 3 /\ streaming =>
         /\ UpgradeStep =>
              /\ tasks'[streamingTask'].lodIndex = 2 - loadedLODs
              /\ tasks'[streamingTask'].target = loadedLODs + 1
         /\ \A t \in TaskIds :
              LODTaskStep(t) =>
                /\ tasks[t].pc = "run" /\ tasks'[t].pc = "loaded" =>
                     /\ tasks[t].lodIndex = 2 - loadedLODs
                     /\ LODs' = [LODs EXCEPT ![3 - loadedLODs] = TRUE]
                     /\ LoadedSet = ResidentRange
                     /\ fired' = 0
                /\ tasks[t].pc = "loaded" =>
                     /\ loadedLODs' = loadedLODs + 1
                     /\ fired' = 1
                     /\ LoadedSet' = ResidentRange'
         /\ CreateCallStep(0) /\ loadedLODs = 3 /\ streamingTask = NULL
            /\ initialized
            => /\ caller'.pc = "downgrade" /\ caller'.i = 0
               /\ fatal' = ""
               /\ LoadedSet = {0, 1, 2}
         /\ caller.pc = "downgrade" /\ CallerStep
            /\ caller.pre = 3 /\ caller.arg = 0
            => IF caller'.pc = "downgrade"
               THEN fired' = 0 /\ loadedLODs' = 3 /\ streamingTask' = NULL
               ELSE /\ LoadedSet' = {} /\ loadedLODs' = 0 /\ fired' = 1
                    /\ caller'.result = NULL /\ streamingTask' = NULL]_vars

\* The downgrade from 3 to 0 has just committed on a model whose three LODs
\* had been brought in by three upgrades.
C11_Witness ==
    /\ LODsCount = 3 /\ caller.pc = "downgrade_done"
    /\ caller.pre = 3 /\ caller.arg = 0
    /\ caller.preLODs = <<TRUE, TRUE, TRUE>>
    /\ LoadedSet = {} /\ loadedLODs = 0 /\ fired = 1

\* C12: on a streamed model, the upgrade from residency r starts from the
\* LODs of the resident range loaded and no others, loads the one LOD
\* LODs.Count() - r - 1 and commits residency r + 1; the downgrade from
\* r + 1 to r that follows starts at that same LOD, unloads it in one step
\* and nothing else, and commits residency r with the loaded LODs again
\* those of the resident range: the residency and the set of loaded LODs
\* are the ones before the upgrade.
C12_UpgradeThenDowngrade ==
    [][streaming =>
         /\ \A t \in TaskIds :
              LODTaskStep(t) =>
                /\ tasks[t].pc = "run" /\ tasks'[t].pc = "loaded" =>
                     /\ LoadedSet = ResidentRange
                     /\ tasks[t].lodIndex = LODsCount - loadedLODs - 1
                     /\ tasks[t].lodIndex \notin LoadedSet
                     /\ LoadedSet' = LoadedSet \cup {tasks[t].lodIndex}
                /\ tasks[t].pc = "loaded" =>
                     /\ loadedLODs' = loadedLODs + 1
                     /\ LoadedSet' = ResidentRange'
         /\ CreateCallStep(loadedLODs - 1) /\ CreateAssert(loadedLODs - 1)
            => /\ caller'.pc = "downgrade"
               /\ caller'.i = LODsCount - loadedLODs
               /\ LoadedSet = ResidentRange
         /\ caller.pc = "downgrade" /\ CallerStep
            /\ caller.pre - caller.arg = 1
            => IF caller'.pc = "downgrade"
               THEN /\ caller.i = LODsCount - caller.pre
                    /\ caller.i \in LoadedSet
                    /\ LoadedSet' = LoadedSet \ {caller.i}
                    /\ caller'.i = DowngradeEnd(caller.arg)
               ELSE /\ caller.i = LODsCount - caller.arg
                    /\ loadedLODs' = caller.arg
                    /\ LoadedSet' = ResidentRange'
                    /\ LoadedSet' = {i \in 0..(LODsCount - 1) : caller.preLODs[i + 1]}
                                      \ {LODsCount - caller.pre}]_vars

\* A downgrade by one has just committed after a task's upgrade, with a LOD
\* still resident.
C12_Witness ==
    /\ caller.pc = "downgrade_done" /\ caller.pre - caller.arg = 1
    /\ caller.arg >= 1 /\ loadedLODs = caller.arg
    /\ caller.preLODs[LODsCount - caller.pre + 1]
    /\ ~LODs[LODsCount - caller.pre + 1]
    /\ LoadedSet = ResidentRange
    /\ \E t \in TaskIds : tasks[t].kind = "lod" /\ tasks[t].state = "Finished"

\* C13 as stated: between the calls of the lifecycle operations (Init,
\* SetupLODs that succeeds or fails part-way, InitAsVirtual, load, unload,
\* in any order), 0 <= _loadedLODs <= LODs.Count().
C13_LifecycleResidencyInRange ==
    caller.pc = "idle" /\ (\A t \in TaskIds : tasks[t].kind = "none")
        => 0 <= loadedLODs /\ loadedLODs <= LODsCount

\* C14: the assertion of the destructor never fails, and at the step that
\* destroys the model _streamingTask is null and every streaming task of
\* the model has run its end hook.
C14_DestructorAssert ==
    [][/\ fatal' # "~Model"
       /\ alive /\ ~alive' => streamingTask = NULL /\ LiveLODTasks = {}]_vars

\* The model was destroyed after its unload cancelled a streaming task.
C14_Witness ==
    /\ ~alive /\ streamingTask = NULL /\ caller.pc = "idle"
    /\ \E t \in TaskIds :
         /\ tasks[t].kind = "lod" /\ tasks[t].state = "Canceled"
         /\ tasks[t].releases = 1

\* C15: a step of a StreamModelLODTask or StreamModelSDFTask whose weak
\* reference is null changes nothing of the model, loads and uploads
\* nothing, fires nothing and fails no assertion; the run returns failure;
\* and the task ends as a non-success with its storage lock released once.
\* No step taken after the model is gone touches the LODs or the residency
\* or fails an assertion.
C15_DeadAssetNoOp ==
    [][/\ ~alive => fatal' = "" /\ UNCHANGED <<LODs, loadedLODs>>
       /\ \A t \in TaskIds :
         /\ tasks[t].kind \in {"lod", "sdf"} /\ ~tasks[t].asset
         /\ ~tasks[t].ended /\ tasks[t].pc # "ret_ok" /\ tasks'[t] # tasks[t]
         => /\ UNCHANGED <<alive, initialized, LODs, loadedLODs, streamingTask,
                           sdfTexture>>
            /\ fired' = 0 /\ fatal' = ""
            /\ tasks'[t].pc \notin {"loaded", "ret_ok"}
            /\ tasks[t].state = "Running" /\ tasks[t].pc \in {"run", "ret_fail"}
               => tasks'[t].pc = "ret_fail" \/ tasks'[t].ended
            /\ tasks'[t].ended =>
                 /\ tasks'[t].state \in {"Failed", "Canceled"}
                 /\ tasks'[t].locks = 0 /\ tasks'[t].releases = 1]_vars

\* Both kinds of task have run and ended after the model was destroyed.
C15_Witness ==
    /\ ~alive
    /\ tasks[1].kind = "lod" /\ tasks[1].state = "Failed"
    /\ tasks[1].releases = 1
    /\ tasks[2].kind = "sdf" /\ tasks[2].state = "Failed"
    /\ tasks[2].releases = 1

\* A header with a count or an index outside its bounds.
HeaderOutOfBounds(h) ==
    \/ h.slots <= 0 \/ h.slots > 4096
    \/ h.lods = 0 \/ h.lods > MODEL_MAX_LODS
    \/ \E k \in 1..Len(h.entries) :
         \/ h.entries[k].meshes = 0 \/ h.entries[k].meshes > MODEL_MAX_MESHES
         \/ \E j \in 1..Len(h.entries[k].list) :
              \/ h.entries[k].list[j].slot < 0
              \/ h.entries[k].list[j].slot >= h.slots

\* Model::load ran on the file that is open: it returned or it stopped
\* the program.
LoadStep ==
    /\ chunks.open /\ ~isVirtual /\ loadResult = ""
    /\ (loadResult' # "" \/ fatal' = "load")

\* C16: load returns MissingDataChunk when the header chunk is missing and
\* InvalidData when the header has a slot count, a LOD count, a mesh count
\* or a slot index outside its bounds, and in these cases streaming is not
\* started.
C16_OutOfBoundsInvalidData ==
    [][LoadStep =>
         /\ ~chunks.header.present => loadResult' = "MissingDataChunk"
         /\ (chunks.header.present /\ HeaderOutOfBounds(chunks.header))
              => loadResult' = "InvalidData"
         /\ (~chunks.header.present \/ HeaderOutOfBounds(chunks.header))
              => (~streaming' /\ ~initialized' /\ streamingTask' = NULL)]_vars

\* C17: a header with a slot count of 0, below 0 or above 4096 makes load
\* return InvalidData and leaves MaterialSlots, the LODs and their meshes
\* as they were.
C17_BadSlotCountNoPartialArrays ==
    [][(LoadStep /\ chunks.header.present
          /\ (chunks.header.slots <= 0 \/ chunks.header.slots > 4096)) =>
         /\ loadResult' = "InvalidData"
         /\ fatal' = fatal
         /\ UNCHANGED <<MaterialSlots, Meshes, LODs, loadedLODs>>]_vars

\* Load rejected a header with no slots or with 4097 slots that is followed
\* by a LOD table, and the object has no slots and no LODs.
C17_Witness ==
    /\ loadResult = "InvalidData"
    /\ chunks.header.present
    /\ chunks.header.slots \in {0, MaxMaterialSlots + 1}
    /\ chunks.header.lods = 1
    /\ chunks.header.entries[1].meshes > 0
    /\ MaterialSlots = 0 /\ Meshes = <<>> /\ LODs = <<>>

\* C18: the header that Save writes for a virtual model set up by accepted
\* calls of Init/SetupLODs and SetupMaterialSlots is accepted by load and
\* gives the same slot count, LOD count, mesh counts, slot indices and UV
\* flags.
C18_SaveLoadRoundTrip ==
    [][(/\ isVirtual /\ ~chunks.open /\ chunks'.open
        /\ \A k \in 1..Len(Meshes) : Len(Meshes[k]) > 0) =>
         \A asserts \in BOOLEAN :
           LET p == ParseHeader(chunks'.header, asserts) IN
           /\ p.result = "Ok"
           /\ p.MaterialSlots = MaterialSlots
           /\ p.Meshes = Meshes]_vars

\* C19: when the SDF chunk has a version tag other than 1, load creates no
\* SDF texture and starts no mip upload task, leaves _loadedLODs and the
\* LODs as the header step left them, never returns Failed, and returns Ok
\* and starts streaming when the header is accepted.
C19_UnknownSDFVersionIgnored ==
    [][(LoadStep /\ chunks.sdf.present /\ chunks.sdf.version # 1) =>
         /\ ~sdfTexture'
         /\ tasks' = tasks
         /\ loadedLODs' = loadedLODs
         /\ LODs' = FreshLODs(Len(LODs'))
         /\ loadResult' # "Failed"
         /\ (fatal' = fatal /\ ParseHeader(chunks.header, FALSE).result = "Ok")
              => (loadResult' = "Ok" /\ streaming' /\ initialized')]_vars

\* Load returned Ok on a file whose SDF chunk has version 2 and mips to
\* upload, and there is no SDF texture and no task.
C19_Witness ==
    /\ loadResult = "Ok"
    /\ chunks.sdf.present /\ chunks.sdf.version = 2 /\ chunks.sdf.mips > 0
    /\ ~sdfTexture
    /\ \A t \in TaskIds : tasks[t] = NoTask
    /\ loadedLODs = 0 /\ LODsCount > 0 /\ streaming

\* C20: when load returns Ok, after an unload that cancelled a running
\* upgrade too, _loadedLODs is 0, no LOD is loaded and no streaming task is
\* linked or still to end; and the residency of a storage-backed model
\* rises only by a streaming task that an upgrade request created.
C20_LoadOkArmsAtZero ==
    [][/\ (~initialized /\ initialized' /\ ~isVirtual') =>
            /\ loadedLODs' = 0
            /\ LoadedSet' = {}
            /\ streamingTask' = NULL
            /\ LiveLODTasks' = {}
       /\ (~isVirtual' /\ loadedLODs' > loadedLODs) =>
            \E t \in TaskIds :
              /\ LODTaskStep(t)
              /\ tasks[t].target > tasks[t].pre
              /\ loadedLODs' = loadedLODs + 1]_vars

\* The model is loaded and an upgrade of it was cancelled before: the
\* residency is 0, no task is linked and the cancelled task has ended.
C20_Witness ==
    /\ initialized /\ ~isVirtual /\ caller.pc = "idle"
    /\ loadedLODs = 0 /\ LoadedSet = {} /\ streamingTask = NULL
    /\ LODsCount > 0 /\ streaming
    /\ \E t \in TaskIds :
         /\ tasks[t].kind = "lod" /\ tasks[t].state = "Canceled"
         /\ tasks[t].ended /\ tasks[t].releases = 1

\* This step is a call of the operation op of the API.
CallStep(op) == call'.op = op /\ call' # call

\* C21: after SetupMaterialSlots(n), for any n, every mesh of every LOD has
\* a slot index i with 0 <= i < MaterialSlots.Count(), and a call with a
\* slot count that ModelBase::SetupMaterialSlots rejects (n < 0 or
\* n >= 4096) changes no slot index.
C21_SlotIndicesStayValid ==
    [][CallStep("SetupMaterialSlots") =>
         /\ \A k \in 1..Len(Meshes') : \A j \in 1..Len(Meshes'[k]) :
               0 <= Meshes'[k][j].slot /\ Meshes'[k][j].slot < MaterialSlots'
         /\ (call'.arg < 0 \/ call'.arg >= 4096) => Meshes' = Meshes]_vars

\* C22: every SetSDF(sdf) leaves the SDF of the model equal to the argument,
\* texture and metadata, and releases the cached SDF chunk 15.
C22_SetSDFReplaces ==
    [][CallStep("SetSDF") =>
         /\ SDF' = call'.sdf
         /\ sdfTexture' = (call'.sdf.Texture # NULL)
         /\ chunks'.sdf = NoSDF]_vars

\* C23 as stated: GenerateSDF returns failure exactly when the SDF is
\* disabled, or no LOD is resident, or the generation fails.
C23_Original ==
    [][CallStep("GenerateSDF") =>
         (call'.ret <=> (\/ EnableModelSDF = 2
                         \/ ~HasAnyLODInitialized
                         \/ call'.fails))]_vars

\* C23, amended: GenerateSDF returns failure exactly when the SDF is
\* disabled, or no LOD is resident, or the model is virtual and the call is
\* on the main thread, or the generation fails; when it returns before the
\* generation it leaves the SDF and chunk 15 as they were.
C23_GenerateSDFFailures ==
    [][CallStep("GenerateSDF") =>
         /\ call'.ret <=> (\/ EnableModelSDF = 2
                           \/ ~HasAnyLODInitialized
                           \/ (call'.main /\ isVirtual)
                           \/ call'.fails)
         /\ (EnableModelSDF = 2 \/ ~HasAnyLODInitialized
                \/ (call'.main /\ isVirtual))
              => UNCHANGED <<SDF, sdfTexture, chunks>>]_vars

\* GenerateSDF returned failure for a virtual model on the main thread,
\* with the SDF not disabled, a LOD resident and a generation that would
\* not fail.
C23_Witness ==
    /\ call.op = "GenerateSDF" /\ call.ret
    /\ call.main /\ isVirtual /\ ~call.fails
    /\ EnableModelSDF # 2 /\ HasAnyLODInitialized
    /\ SDF = NoSDFData

\* C24: when the SDF is disabled (EnableModelSDF is 2), load ignores the
\* SDF chunk and returns Ok for an accepted header, and GenerateSDF does
\* not return failure.
C24_DisabledNotSurfaced ==
    [][EnableModelSDF = 2 =>
         /\ (LoadStep /\ fatal' = fatal
               /\ ParseHeader(chunks.header, FALSE).result = "Ok")
              => (loadResult' = "Ok" /\ ~sdfTexture' /\ tasks' = tasks)
         /\ CallStep("GenerateSDF") => ~call'.ret]_vars

\* C25: once EnableModelSDF is 1 or 2 no step changes it, whatever the
\* constructors called and the device; and while it is 0 load reads no SDF
\* and GenerateSDF generates none.
C25_DecidedOnce ==
    [][/\ EnableModelSDF # 0 => EnableModelSDF' = EnableModelSDF
       /\ EnableModelSDF = 0 =>
            /\ LoadStep => (~sdfTexture' /\ tasks' = tasks /\ SDF' = SDF)
            /\ CallStep("GenerateSDF") =>
                  UNCHANGED <<SDF, sdfTexture, chunks>>]_vars

\* This step is a call of Save that the checks before the lock refuse.
SaveRefusedStep ==
    /\ CallStep("Save")
    /\ (call'.gpu /\ call'.main) \/ (isVirtual /\ ~call'.gpu)

\* C26: Save with the mesh data from the GPU on the main thread, and Save
\* of a virtual model without the mesh data from the GPU, return failure
\* and change no chunk, no task and nothing of the model.
C26_SaveRefusedEarly ==
    [][SaveRefusedStep =>
         /\ call'.ret
         /\ UNCHANGED <<chunks, tasks, streamingTask, LODs, loadedLODs, SDF,
                        sdfTexture, MaterialSlots, Meshes, meshData,
                        meshesStream, fatal>>]_vars

\* Save of a storage-backed model with the mesh data from the GPU was
\* refused on the main thread, and its chunks are those that were loaded.
C26_Witness ==
    /\ call.op = "Save" /\ call.gpu /\ call.main /\ call.ret
    /\ ~isVirtual /\ initialized
    /\ chunks.open /\ chunks.sdf.present /\ ~sdfTexture

\* Save wrote, or stopped at, the data of the downloaded mesh.
WriteMeshStep == CallStep("Save") /\ meshData # NoMeshData /\ meshData.triangles > 0

\* The width derived from the index count of the downloaded mesh is 16 bit.
ShouldUse16 == meshData.triangles * 3 <= MAX_uint16

\* C27: when Save narrows the 32 bit index buffer of a mesh to 16 bit
\* because triangleCount * 3 <= 65535, every index written equals the
\* original index, whatever the vertex count of the mesh.
C27_NarrowingLossless ==
    [][(WriteMeshStep /\ ShouldUse16 /\ ~meshData.use16) =>
         meshesStream' = meshData.IB]_vars

\* C28: when the index width of a mesh disagrees with the width derived
\* from its index count, Save converts the indices one by one, narrowing
\* or widening, and goes on: it never stops the program.
C28_WidthMismatchConverted ==
    [][(WriteMeshStep /\ ShouldUse16 # meshData.use16) =>
         /\ fatal' = ""
         /\ Len(meshesStream') = Len(meshData.IB)
         /\ ~ShouldUse16 => meshesStream' = meshData.IB]_vars

(***************************************************************************)
(* Fair scheduling of the workers.                                         *)
(***************************************************************************)
\* One step of a worker thread on task t: the task is taken from the queue,
\* its Run advances, or it ends.
Worker(t) ==
    \/ TaskExecute(t)
    \/ LODTaskRun(t)
    \/ LODTaskCommit(t)
    \/ ChunkTaskRun(t)
    \/ TaskEnd(t)

\* The streaming driver cancels the chunk-read task that CreateStreamingTask
\* returned to it; the cancellation reaches the continuation.
CancelChunkTask(c) ==
    /\ Live /\ tasks[c].kind = "chunk" /\ ~tasks[c].cancel
    /\ SetWorld(Cancel(World, c))
    /\ fired' = 0
    /\ UNCHANGED <<alive, isVirtual, initialized, streaming, LODs, loadedLODs,
                   sdfTexture, caller>>
    /\ UNCHANGED structure
    /\ UNCHANGED outside
    /\ UNCHANGED SDF

\* A storage-backed model that load accepted with n LODs, none resident and
\* no SDF chunk.
FairInit ==
    /\ \E n \in 1..MaxLODs : ModelState("storage", n, 0, FALSE)
    /\ device = "SM5"
    /\ EnableModelSDF = 1
    /\ meshData = NoMeshData
    /\ meshesStream = <<>>
    /\ downloads = NoDownloads
    /\ lodChunks = <<>>
    /\ draw = NoDraw

\* The streaming of a loaded model up to its unload and destruction.
FairNext ==
    \/ \E r \in 0..MaxLODs : CreateRejected(r)
    \/ \E r \in 0..MaxLODs : CreateUpgrade(r)
    \/ \E r \in 0..MaxLODs : CreateDowngradeBegin(r)
    \/ DowngradeUnload
    \/ DowngradeCommit
    \/ DowngradeReturn
    \/ \E t \in TaskIds : TaskExecute(t)
    \/ \E t \in TaskIds : LODTaskRun(t)
    \/ \E t \in TaskIds : LODTaskCommit(t)
    \/ \E t \in TaskIds : ChunkTaskRun(t)
    \/ \E t \in TaskIds : TaskEnd(t)
    \/ \E c \in TaskIds : CancelChunkTask(c)
    \/ CallCancelStreamingTasks
    \/ CancelReturn
    \/ CallUnload
    \/ UnloadFinish
    \/ Destroy

\* The thread pool does not starve a task: a task that stays ready for a
\* worker is eventually served.
FairSpec == FairInit /\ [][FairNext]_vars /\ \A t \in TaskIds : WF_vars(Worker(t))

\* The streaming task t is created and has not ended.
UpgradePending(t) == tasks[t].kind = "lod" /\ ~tasks[t].ended

\* The streaming task t ends in this step.
UpgradeEnds(t) == UpgradePending(t) /\ tasks'[t].ended

\* C29: under fair scheduling of the workers every created upgrade task
\* ends, whatever happens to its chunk-read predecessor and to its Run,
\* unless an assertion stopped the program; the step in which it ends with
\* its model reference set clears _streamingTask; and a task reference
\* held by an initialized model is eventually cleared, so that CanBeUpdated
\* is true again unless the model was unloaded meanwhile.
C29_UpgradeTaskEnds ==
    /\ \A t \in TaskIds : UpgradePending(t) ~> (tasks[t].ended \/ ~Live)
    /\ [][\A t \in TaskIds :
            (UpgradeEnds(t) /\ tasks[t].asset /\ Live') => streamingTask' = NULL]_vars
    /\ (initialized /\ streamingTask # NULL)
           ~> (CanBeUpdated \/ ~initialized \/ ~Live)

\* An upgrade task was cancelled while its chunk-read predecessor was still
\* to complete; it has ended and the model can be updated again.
C29_Witness ==
    \E t, c \in TaskIds :
        /\ tasks[c].kind = "chunk" /\ tasks[c].next = t
        /\ tasks[t].kind = "lod" /\ tasks[t].ended /\ tasks[t].state = "Canceled"
        /\ CanBeUpdated

\* The chunk-read task created in this step with t as its continuation.
NewChunkTasks(t) ==
    {c \in TaskIds : tasks[c].kind # "chunk" /\ tasks'[c].kind = "chunk"
                     /\ tasks'[c].next = t}

\* The chunk-read task c of continuation t completes successfully in this step.
ChunkReadSucceeds(c, t) ==
    /\ tasks[c].kind = "chunk" /\ tasks[c].next = t
    /\ tasks[c].state = "Running" /\ tasks[c].pc = "ret_ok" /\ ~tasks[c].cancel
    /\ tasks'[c].kind = "none"

\* C30: the step that links a streaming task either creates a queued
\* chunk-read task with the streaming task as its not yet started
\* continuation and returns the chunk-read task, or returns the streaming
\* task itself, queued; a chained streaming task is started only by the
\* step in which its chunk-read task completes successfully and otherwise
\* ends; Run is entered only by a queued task; and a streaming task that
\* ended while its chunk-read task was pending is never touched again, so
\* its Run is not executed.
C30_ChainedBehindChunkRead ==
    [][/\ (streamingTask = NULL /\ streamingTask' # NULL) =>
            LET t == streamingTask' IN
            /\ tasks'[t].kind = "lod"
            /\ IF NewChunkTasks(t) # {}
               THEN /\ caller'.result \in NewChunkTasks(t)
                    /\ tasks'[caller'.result].state = "Queued"
                    /\ tasks'[t].state = "Created"
               ELSE /\ caller'.result = t
                    /\ tasks'[t].state = "Queued"
       /\ \A t \in TaskIds :
            /\ (tasks[t].kind = "lod" /\ tasks[t].state = "Created"
                    /\ tasks'[t] # tasks[t]) =>
                   \/ tasks'[t].ended /\ tasks'[t].state = "Canceled"
                   \/ /\ tasks'[t].state = "Queued"
                      /\ \E c \in TaskIds : ChunkReadSucceeds(c, t)
            /\ (tasks'[t].kind = "lod" /\ tasks'[t].state = "Running"
                    /\ tasks[t].state # "Running") =>
                   tasks[t].kind = "lod" /\ tasks[t].state = "Queued"
            /\ (tasks[t].kind = "lod" /\ tasks[t].ended
                    /\ \E c \in TaskIds : tasks[c].kind = "chunk" /\ tasks[c].next = t) =>
                   tasks'[t] = tasks[t]
      ]_vars

\* CreateStreamingTask returned a chunk-read task that has completed, and
\* the streaming task chained behind it is in its Run.
C30_Witness ==
    /\ caller.pc = "idle" /\ caller.result # NULL
    /\ streamingTask # NULL /\ caller.result # streamingTask
    /\ tasks[caller.result].kind = "none"
    /\ tasks[streamingTask].state = "Running" /\ tasks[streamingTask].pc = "run"

\* StreamModelLODTask::Run builds the buffers of its LOD in this step
\* (LODs[_lodIndex].Load returned false).
WorkerLoads(t) ==
    tasks[t].kind = "lod" /\ tasks[t].pc = "run" /\ tasks'[t].pc = "loaded"

\* C31: every step that takes a LOD from Unloaded to Loaded or back is taken
\* while the Locker of the model is held: the load in Run, and the unload
\* of a LOD that keeps its place in LODs (a downgrade under the lock of
\* CreateStreamingTask, or Init under the lock of SetupLODs on a virtual
\* model).
C31_TransitionsUnderLocker ==
    [][/\ \A t \in TaskIds : WorkerLoads(t) => LockerHeld
       /\ \A i \in DOMAIN LODs :
            (i \in DOMAIN LODs' /\ LODs[i] /\ ~LODs'[i]) => LockerHeld \/ isVirtual
      ]_vars

\* C32: ASSERT(_asset->_streamingTask == this) of StreamModelLODTask::OnEnd
\* never fails: every streaming task that has not ended and whose weak
\* reference is set is the task _streamingTask points to, so its OnEnd,
\* whenever it runs, finds the assertion true and clears no other task's
\* pointer; this covers a task cancelled by unload and a model loaded again.
C32_OnEndAssertHolds ==
    /\ fatal # "OnEnd"
    /\ \A t \in TaskIds :
         (tasks[t].kind = "lod" /\ ~tasks[t].ended /\ tasks[t].asset)
             => streamingTask = t

\* unload cancelled the streaming task while it was running: the task has
\* run its OnEnd, and unload has not yet overwritten _streamingTask.
C32_Witness ==
    /\ caller.pc = "unload_wait" /\ caller.wait # NULL
    /\ tasks[caller.wait].kind = "lod" /\ tasks[caller.wait].ended
    /\ streamingTask = NULL /\ fatal = ""

\* StreamModelLODTask::Run of task t passes its model check and goes on to
\* the data of LODs[_lodIndex] in this step.
RunAccessesLOD(t) ==
    /\ tasks[t].kind = "lod" /\ tasks[t].asset
    /\ tasks[t].pc = "run" /\ tasks'[t].pc # "run"

\* C33: whenever Run accesses LODs[_lodIndex] on a live model the index is
\* inside LODs and is the LOD just below the resident range,
\* _lodIndex = LODs.Count() - _loadedLODs - 1, whatever ran between the
\* creation of the task and its execution; the access never stops the
\* program.
C33_RunIndexBelowResident ==
    [][\A t \in TaskIds :
          RunAccessesLOD(t) =>
              /\ 0 <= tasks[t].lodIndex /\ tasks[t].lodIndex < LODsCount
              /\ tasks[t].lodIndex = LODsCount - loadedLODs - 1
              /\ fatal' # "LODs"]_vars

\* unload was called while the task was in its Run: the cancellation is
\* pending and Run has loaded its LOD.
C33_Witness ==
    \E t \in TaskIds :
        /\ tasks[t].kind = "lod" /\ tasks[t].pc = "loaded" /\ tasks[t].cancel
        /\ caller.pc = "unload_wait"
        /\ LODs[tasks[t].lodIndex + 1]

\* The streaming of a loaded model with GenerateSDF called meanwhile from
\* another thread: the call takes the Locker, which CreateStreamingTask
\* holds during a downgrade and which a worker in Run does not take.
StreamingSDFNext ==
    \/ FairNext
    \/ GenerateSDF

StreamingSDFSpec == FairInit /\ [][StreamingSDFNext]_vars

\* This step is a GenerateSDF call that reaches ModelTool::GenerateModelSDF.
GenerationInvoked ==
    CallStep("GenerateSDF") /\ GenerateRefused(call'.main) = ""

\* C34: a GenerateSDF call that runs the generation has a resident LOD, and
\* the source LOD index it passes (kept in the SDF when the generation
\* succeeds) lies in [LODs.Count() - _loadedLODs, LODs.Count() - 1],
\* whatever index the caller requested.
C34_SourceLODResident ==
    [][GenerationInvoked =>
          /\ loadedLODs > 0
          /\ ~call'.ret =>
                /\ LODsCount - loadedLODs <= SDF'.LOD
                /\ SDF'.LOD <= LODsCount - 1]_vars

(***************************************************************************)
(* Model::Save with withMeshDataFromGpu: the downloads of one mesh.        *)
(***************************************************************************)
\* What the download steps of Save leave alone.
modelState ==
    <<alive, isVirtual, initialized, streaming, LODs, loadedLODs, streamingTask,
      sdfTexture, tasks, fired, fatal, MaterialSlots, Meshes, chunks,
      loadResult, EnableModelSDF, device, SDF, meshData, meshesStream, draw>>

\* Save is inside its call.
InSave == caller.pc \in {"save_download", "save_lod", "save_finish"}

\* Save returns `ret`; call.arg counts the calls of SaveAsset.
SaveReturns(ret) ==
    /\ caller' = Idle
    /\ call' = [call EXCEPT !.ret = ret]

\* Save(true, path) passes its checks and enters the download loop at LOD 0
\* with a fresh meshesData; no task of an earlier call is running.  The
\* caller keeps what the LOD chunks held at the call.
SaveDownloadBegin ==
    /\ Live /\ alive /\ caller.pc = "idle"
    /\ initialized
    /\ \A b \in DOMAIN BufferTypes : downloads[b] # "started"
    /\ \E main \in BOOLEAN :
         /\ ~SaveRejected(TRUE, main)
         /\ call' = [Call("Save") EXCEPT !.gpu = TRUE, !.main = main]
    /\ caller' = [Idle EXCEPT !.pc = "save_download", !.arg = 0, !.i = 1,
                              !.preLODs = lodChunks]
    /\ downloads' = NoDownloads
    /\ UNCHANGED lodChunks
    /\ UNCHANGED modelState

\* task = mesh.DownloadDataGPUAsync(type, buffer): a task, which is started
\* and added to tasks, or nullptr, which ends Save with true unless the
\* buffer is the optional Vertex2.
SaveRequestDownload ==
    LET b == caller.i IN
    /\ Live /\ caller.pc = "save_download" /\ b \in DOMAIN BufferTypes
    /\ \E task \in BOOLEAN :
         IF task
         THEN /\ downloads' = [downloads EXCEPT ![b] = "started"]
              /\ caller' = [caller EXCEPT !.i = b + 1]
              /\ UNCHANGED call
         ELSE IF BufferTypes[b] = "Vertex2"
         THEN /\ caller' = [caller EXCEPT !.i = b + 1]
              /\ UNCHANGED <<downloads, call>>
         ELSE /\ SaveReturns(TRUE)
              /\ UNCHANGED downloads
    /\ UNCHANGED lodChunks
    /\ UNCHANGED modelState

\* The download task of buffer b runs on the GPU tasks thread and ends: the
\* buffer is filled, or the task fails.
DownloadTaskEnd(b) ==
    /\ Live /\ downloads[b] = "started"
    /\ \E ok \in BOOLEAN :
         downloads' = [downloads EXCEPT ![b] = IF ok THEN "done" ELSE "failed"]
    /\ UNCHANGED <<caller, call, lodChunks>>
    /\ UNCHANGED modelState

\* The first task of `tasks`, in the order they were added, that has not
\* finished successfully; 0 when there is none.
FirstUnfinished ==
    LET U == {b \in DOMAIN BufferTypes : downloads[b] \in {"started", "failed"}}
    IN IF U = {} THEN 0 ELSE MinOf(U)

\* if (Task::WaitAll(tasks)) return true: the tasks are waited for in
\* order, and the wait returns true at the first one that failed.
SaveWaitAll ==
    /\ Live /\ caller.pc = "save_download" /\ caller.i = Len(BufferTypes) + 1
    /\ IF FirstUnfinished = 0
       THEN /\ caller' = [caller EXCEPT !.pc = "save_lod"]
            /\ UNCHANGED call
       ELSE /\ downloads[FirstUnfinished] = "failed"
            /\ SaveReturns(TRUE)
    /\ UNCHANGED <<downloads, lodChunks>>
    /\ UNCHANGED modelState

\* The meshes data of the LOD is created: an empty mesh or a short vertex
\* buffer 0 returns true; otherwise the stream is copied into the LOD chunk,
\* which is a chunk of the asset unless the model is virtual (GET_CHUNK), and
\* the loop goes on with the next LOD.
SaveWriteLOD ==
    LET lodIndex == caller.arg IN
    /\ Live /\ caller.pc = "save_lod"
    /\ \E meshes \in {"ok", "invalid"} :
         IF meshes = "invalid"
         THEN /\ SaveReturns(TRUE)
              /\ UNCHANGED <<downloads, lodChunks>>
         ELSE /\ lodChunks' = IF isVirtual THEN lodChunks
                              ELSE [lodChunks EXCEPT ![lodIndex + 1] = "gpu"]
              /\ downloads' = NoDownloads
              /\ caller' = IF lodIndex + 1 < LODsCount
                           THEN [caller EXCEPT !.pc = "save_download",
                                               !.arg = lodIndex + 1, !.i = 1]
                           ELSE [caller EXCEPT !.pc = "save_finish"]
              /\ UNCHANGED call
    /\ UNCHANGED modelState

\* After the LODs: the SDF texture, when there is one, is downloaded, which
\* may fail; then the header chunk is set and SaveAsset is called, whose
\* failure is the result of Save.
SaveFinish ==
    /\ Live /\ caller.pc = "save_finish"
    /\ \E sdfDownload \in IF SDF.Texture # NULL THEN {"ok", "fails"} ELSE {"ok"},
          saveAsset \in {"ok", "fails"} :
         IF sdfDownload = "fails"
         THEN SaveReturns(TRUE)
         ELSE /\ caller' = Idle
              /\ call' = [call EXCEPT !.arg = 1, !.ret = (saveAsset = "fails")]
    /\ UNCHANGED <<downloads, lodChunks>>
    /\ UNCHANGED modelState

\* A loaded model whose meshes are on the GPU: virtual with uploaded
\* meshes, or storage-backed with r of its n LODs resident; its LOD chunks
\* hold what the file holds.
DownloadInit ==
    /\ \E kind \in {"storage", "virtual"}, n \in 1..MaxHeaderLODs,
          r \in 1..MaxHeaderLODs :
         /\ r <= n
         /\ kind = "virtual" => r = n
         /\ ModelState(kind, n, r, kind = "virtual")
         /\ lodChunks = [i \in 1..n |-> "file"]
    /\ device = "SM5"
    /\ EnableModelSDF = 1
    /\ meshData = NoMeshData
    /\ meshesStream = <<>>
    /\ downloads = NoDownloads
    /\ draw = NoDraw

DownloadNext ==
    \/ SaveDownloadBegin
    \/ SaveRequestDownload
    \/ \E b \in DOMAIN BufferTypes : DownloadTaskEnd(b)
    \/ SaveWaitAll
    \/ SaveWriteLOD
    \/ SaveFinish

DownloadSpec == DownloadInit /\ [][DownloadNext]_vars

\* C35: whenever Save with withMeshDataFromGpu has returned, with success
\* or with failure, no download task that it started is still running.
C35_NoDownloadOutstanding ==
    (caller.pc = "idle" /\ call.op = "Save")
        => \A b \in DOMAIN BufferTypes : downloads[b] # "started"

\* Save returns failure in this step before it has called SaveAsset.
SaveFailsEarly == InSave /\ caller'.pc = "idle" /\ call'.ret /\ call'.arg = 0

\* C36: a Save call that returns failure for one of the causes before
\* SaveAsset has not called SaveAsset and, on a model that is not virtual,
\* leaves every LOD chunk with the contents it had when Save was called,
\* the chunks of the LODs processed before the failing one included.
C36_FailedSaveKeepsChunks ==
    [][(SaveFailsEarly /\ ~isVirtual) => lodChunks' = caller.preLODs]_vars

\* A storage-backed model that load accepted with n LODs, one material
\* slot and one mesh per LOD, r of the LODs resident, with or without an SDF
\* texture whose mips are uploaded.
LoadedInit ==
    \E n \in 1..MaxLODs, r \in 0..MaxLODs, sdf \in BOOLEAN :
        /\ r <= n
        /\ alive = TRUE
        /\ isVirtual = FALSE
        /\ initialized = TRUE
        /\ streaming = TRUE
        /\ LODs = [i \in 1..n |-> i > n - r]
        /\ loadedLODs = r
        /\ streamingTask = NULL
        /\ sdfTexture = sdf
        /\ tasks = [t \in TaskIds |-> NoTask]
        /\ caller = Idle
        /\ fired = 0
        /\ fatal = ""
        /\ MaterialSlots = 1
        /\ Meshes = [k \in 1..n |-> <<MeshInit(0, TRUE)>>]
        /\ chunks = [open   |-> TRUE,
                     header |-> PlainHeader(n),
                     sdf    |-> IF sdf
                                THEN [present |-> TRUE, version |-> 1, mips |-> 1]
                                ELSE NoSDF]
        /\ loadResult = "Ok"
        /\ SDF = IF sdf THEN [Texture |-> 1, LOD |-> 0] ELSE NoSDFData
        /\ call = NoCall
        /\ device = "SM5"
        /\ EnableModelSDF = 1
        /\ meshData = NoMeshData
        /\ meshesStream = <<>>
        /\ downloads = NoDownloads
        /\ lodChunks = <<>>
        /\ draw = NoDraw

\* The streaming of such a model up to its unload and destruction.
LoadedSpec == LoadedInit /\ [][FairNext]_vars

\* Model::unload returns in this step.
UnloadReturns == caller.pc = "unload_wait" /\ caller'.pc = "idle"

\* C37: when unload returns the model is empty: _streamingTask is null,
\* _loadedLODs is 0, LODs and MaterialSlots are empty and the SDF texture is
\* released, whether or not a streaming task was outstanding at the call.
C37_UnloadLeavesEmpty ==
    [][UnloadReturns =>
          /\ streamingTask' = NULL
          /\ loadedLODs' = 0
          /\ LODs' = <<>> /\ Meshes' = <<>>
          /\ MaterialSlots' = 0
          /\ SDF'.Texture = NULL /\ ~sdfTexture']_vars

\* unload has returned on a model whose streaming task was cancelled: the
\* model is empty and the task has ended.
C37_Witness ==
    /\ alive /\ ~initialized /\ caller.pc = "idle"
    /\ LODs = <<>> /\ MaterialSlots = 0 /\ loadedLODs = 0 /\ streamingTask = NULL
    /\ \E t \in TaskIds :
         tasks[t].kind = "lod" /\ tasks[t].ended /\ tasks[t].state = "Canceled"

(***************************************************************************)
(* Model::Draw and ModelDraw.                                              *)
(***************************************************************************)
\* ModelBase::CanBeRendered: a LOD is resident.
CanBeRendered == loadedLODs > 0

\* Model::ClampLODIndex
ClampLODIndex(index) == Clamp(index, HighestResidentLODIndex, LODsCount - 1)

\* The amounts by which one frame advances a transition.
TransitionSteps == {100, 255}

\* RenderTools::UpdateModelLODTransition: the transition advances by d and
\* stops at 255.
UpdateModelLODTransition(lodTransition, d) ==
    IF lodTransition + d < 255 THEN lodTransition + d ELSE 255

\* Mutant: a transition starts whenever the selected LOD differs.
StartTransitionAlways(prevLOD, lodIndex, lodTransition) ==
    IF prevLOD # lodIndex THEN 0 ELSE lodTransition

\* if (PrevLOD != lodIndex && LODTransition == 255) LODTransition = 0
StartTransition(prevLOD, lodIndex, lodTransition) ==
    IF prevLOD # lodIndex /\ lodTransition = 255 THEN 0 ELSE lodTransition

\* ModelDraw after the CanBeRendered check, for a draw state ds, `gap`
\* frames after the last draw of the instance (modelFrame == frame when gap
\* is 1, modelFrame < frame when it is larger), ForcedLOD `forced`, the
\* result `computed` of ComputeModelLOD, the sum `bias` of the LOD biases
\* and View.IsSingleFrame `single`: the new draw state and the LOD indices
\* drawn, in order.
ModelDrawBody(ds, gap, forced, computed, bias, single, d) ==
    IF forced = -1 /\ computed = -1
    THEN \* the model is culled: fade-out transition
         IF gap = 1 /\ ds.PrevLOD # -1 /\ ~single
         THEN LET t1 == IF ds.LODTransition = 255 THEN 0 ELSE ds.LODTransition
                  t2 == UpdateModelLODTransition(t1, d)
              IN IF t2 = 255
                 THEN [PrevLOD |-> -1, LODTransition |-> t2, lodIndex |-> -1,
                       started |-> ds.LODTransition = 255, drawn |-> <<>>]
                 ELSE [PrevLOD |-> ds.PrevLOD, LODTransition |-> t2,
                       lodIndex |-> -1, started |-> ds.LODTransition = 255,
                       drawn |-> <<ClampLODIndex(ds.PrevLOD)>>]
         ELSE [PrevLOD |-> ds.PrevLOD, LODTransition |-> ds.LODTransition,
               lodIndex |-> -1, started |-> FALSE, drawn |-> <<>>]
    ELSE LET lodIndex == ClampLODIndex((IF forced # -1 THEN forced ELSE computed)
                                       + bias)
             t1 == StartTransition(ds.PrevLOD, lodIndex, ds.LODTransition)
             t2 == UpdateModelLODTransition(t1, d)
             st == IF single THEN ds
                   ELSE IF gap = 1
                   THEN [ds EXCEPT !.LODTransition = t2,
                                   !.PrevLOD = IF t2 = 255 THEN lodIndex ELSE @]
                   ELSE IF gap > 1 \/ ds.PrevLOD = -1
                   THEN [ds EXCEPT !.PrevLOD = lodIndex, !.LODTransition = 255]
                   ELSE ds
         IN [PrevLOD |-> st.PrevLOD, LODTransition |-> st.LODTransition,
             lodIndex |-> lodIndex,
             started |-> ~single /\ gap = 1 /\ t1 = 0 /\ ds.LODTransition # 0,
             drawn |-> IF st.PrevLOD = lodIndex \/ single THEN <<lodIndex>>
                       ELSE IF st.PrevLOD = -1 THEN <<lodIndex>>
                       ELSE <<ClampLODIndex(st.PrevLOD), lodIndex>>]

\* Model::Draw(renderContext, material, world, ...) after the CanBeRendered
\* check: the selected LOD is clamped and drawn; the draw state is not used.
ModelDrawSimple(ds, computed, bias) ==
    IF computed = -1
    THEN [PrevLOD |-> ds.PrevLOD, LODTransition |-> ds.LODTransition,
          lodIndex |-> -1, started |-> FALSE, drawn |-> <<>>]
    ELSE [PrevLOD |-> ds.PrevLOD, LODTransition |-> ds.LODTransition,
          lodIndex |-> ClampLODIndex(computed + bias), started |-> FALSE,
          drawn |-> <<ClampLODIndex(computed + bias)>>]

\* A draw call starts on the render thread: if (!CanBeRendered()) return.
\* The render thread takes no lock.
DrawBegin ==
    /\ Live /\ alive /\ draw.pc = "idle"
    /\ \E op \in {"Draw", "ModelDraw"} :
         draw' = [draw EXCEPT !.op = op, !.drawn = <<>>, !.lodIndex = -1,
                              !.gap = 0, !.single = FALSE, !.started = FALSE,
                              !.pc = IF CanBeRendered THEN "select" ELSE "idle"]
    /\ UNCHANGED <<alive, isVirtual, initialized, streaming, LODs, loadedLODs,
                   streamingTask, sdfTexture, tasks, caller, fired, fatal>>
    /\ UNCHANGED structure
    /\ UNCHANGED <<EnableModelSDF, device, SDF, call, meshData, meshesStream,
                   downloads, lodChunks>>

\* The rest of the draw call: the LOD is selected and clamped against the
\* residency as it is now, the draw state is updated and the LODs are drawn.
\* The caller of ModelDraw then stores the frame in the draw state.
DrawSelect ==
    /\ Live /\ alive /\ draw.pc = "select"
    /\ \E gap \in 0..2, forced \in -1..MaxLODs, computed \in -1..(LODsCount - 1),
          bias \in {-1, 0, 1}, single \in BOOLEAN, d \in TransitionSteps :
         LET ds == [PrevLOD |-> draw.PrevLOD, LODTransition |-> draw.LODTransition]
             r  == IF draw.op = "Draw" THEN ModelDrawSimple(ds, computed, bias)
                   ELSE ModelDrawBody(ds, gap, forced, computed, bias, single, d)
         IN draw' = [draw EXCEPT !.pc = "idle",
                                 !.PrevLOD = r.PrevLOD,
                                 !.LODTransition = r.LODTransition,
                                 !.gap = IF draw.op = "Draw" THEN 0 ELSE gap,
                                 !.single = draw.op # "Draw" /\ single,
                                 !.started = r.started,
                                 !.lodIndex = r.lodIndex,
                                 !.drawn = r.drawn,
                                 !.lo = HighestResidentLODIndex,
                                 !.hi = LODsCount - 1]
    /\ UNCHANGED <<alive, isVirtual, initialized, streaming, LODs, loadedLODs,
                   streamingTask, sdfTexture, tasks, caller, fired, fatal>>
    /\ UNCHANGED structure
    /\ UNCHANGED <<EnableModelSDF, device, SDF, call, meshData, meshesStream,
                   downloads, lodChunks>>

\* A loaded storage-backed model with r of its n LODs resident and an
\* instance of it that was never drawn.
DrawInit ==
    /\ \E n \in 1..MaxLODs, r \in 0..MaxLODs :
         /\ r <= n
         /\ ModelState("storage", n, r, FALSE)
    /\ device = "SM5"
    /\ EnableModelSDF = 1
    /\ meshData = NoMeshData
    /\ meshesStream = <<>>
    /\ downloads = NoDownloads
    /\ lodChunks = <<>>
    /\ draw = NoDraw

\* The render thread draws the instance while the streaming thread lowers
\* the residency of the model.
DrawNext ==
    \/ DrawBegin
    \/ DrawSelect
    \/ \E r \in 0..MaxLODs : CreateDowngradeBegin(r)
    \/ DowngradeUnload
    \/ DowngradeCommit
    \/ DowngradeReturn

DrawSpec == DrawInit /\ [][DrawNext]_vars

\* A draw call returns in this step.
DrawReturns == draw.pc = "select" /\ draw'.pc = "idle"

\* C38: a draw call that finds CanBeRendered false draws nothing, and every
\* LOD index a draw call draws lies in the resident range
\* [LODs.Count() - _loadedLODs, LODs.Count() - 1] as it was when the call
\* clamped its indices.
C38_DrawnLODsResident ==
    [][/\ (draw.pc = "idle" /\ draw' # draw /\ ~CanBeRendered) =>
              draw'.pc = "idle" /\ draw'.drawn = <<>>
       /\ DrawReturns =>
              \A k \in 1..Len(draw'.drawn) :
                  draw'.lo <= draw'.drawn[k] /\ draw'.drawn[k] <= draw'.hi
      ]_vars

\* A ModelDraw call returns in this step.
ModelDrawReturns == DrawReturns /\ draw.op = "ModelDraw"

\* ModelDraw drew the model: it was not culled.
Selected == draw'.lodIndex # -1

\* The reset branch of ModelDraw is taken: the view is not a single frame,
\* the frame is not the one after the last draw, and there was a gap or no
\* previous LOD.
ResetTaken ==
    /\ Selected /\ ~draw'.single /\ draw'.gap # 1
    /\ (draw'.gap > 1 \/ draw.PrevLOD = -1)

\* The state is reset and only the selected LOD is drawn.
IsReset ==
    /\ draw'.PrevLOD = draw'.lodIndex
    /\ draw'.LODTransition = 255
    /\ draw'.drawn = <<draw'.lodIndex>>

\* A transition starts only on a consecutive frame when the selected LOD
\* (none when the model is culled) differs from PrevLOD and LODTransition
\* is 255.
StartsOnlyWhenIdle ==
    draw'.started =>
        /\ draw'.gap = 1 /\ ~draw'.single
        /\ draw'.lodIndex # draw.PrevLOD
        /\ draw.LODTransition = 255

\* PrevLOD changes only when the transition has reached 255 or on a reset.
PrevLODChangesAtEnd ==
    draw'.PrevLOD # draw.PrevLOD => draw'.LODTransition = 255

\* C39 as stated: after a gap between drawn frames, or with PrevLOD == -1,
\* a drawn ModelDraw call resets the state to PrevLOD = selected LOD and
\* LODTransition = 255 and draws only the selected LOD.
C39_Original ==
    [][ModelDrawReturns =>
          /\ StartsOnlyWhenIdle
          /\ PrevLODChangesAtEnd
          /\ (Selected /\ ~draw'.single /\ (draw'.gap > 1 \/ draw.PrevLOD = -1))
                 => IsReset
      ]_vars

\* C39: over any sequence of ModelDraw calls, a transition starts only on a
\* consecutive frame when the selected LOD differs from PrevLOD and
\* LODTransition is 255; PrevLOD changes only when LODTransition has reached
\* 255 or on a reset; a drawn call that is not on the consecutive frame, after
\* a gap or with PrevLOD == -1, resets the state to PrevLOD = selected LOD
\* and LODTransition = 255 and draws only the selected LOD; and whenever
\* PrevLOD is -1 after a drawn call only the selected LOD is drawn.
C39_TransitionState ==
    [][ModelDrawReturns =>
          /\ StartsOnlyWhenIdle
          /\ PrevLODChangesAtEnd
          /\ ResetTaken => IsReset
          /\ (Selected /\ draw'.PrevLOD = -1) => draw'.drawn = <<draw'.lodIndex>>
      ]_vars

\* A ModelDraw call started a transition and drew the previous and the
\* selected LOD.
C39_Witness ==
    /\ draw.pc = "idle" /\ draw.op = "ModelDraw"
    /\ draw.started /\ Len(draw.drawn) = 2

====
